---- MODULE Spec2Model ----
(***************************************************************************)
(* Model of the relay-bam-plugin decision core (build with the "oracle"    *)
(* and "institutional" features on): bundle validation, the tiered fee     *)
(* engine, the oracle admission pipeline, the institutional sequencer and  *)
(* the shared PLUGIN_STATE / PYTH_CLIENT objects.                          *)
(*                                                                         *)
(* Representation notes                                                    *)
(*  - a raw pointer is a pair "x_is_null" / pointee; a pointee sequence    *)
(*    has exactly the length its count field announces;                    *)
(*  - 32-byte keys, hashes and feed ids are naturals, 0 = all bytes zero;  *)
(*  - time is in whole seconds (SystemTime::now() as unix seconds);        *)
(*  - an f32 is the dyadic rational m / 2^e it denotes.                    *)
(***************************************************************************)
EXTENDS Integers, Sequences, FiniteSets, TLC

\* ------------------------------------------------------------------------
\* Decision codes (types.rs; the institutional codes are used by
\* institutional.rs).
SUCCESS == "SUCCESS"
ERROR_NULL_POINTER == "ERROR_NULL_POINTER"
ERROR_INVALID_BUNDLE == "ERROR_INVALID_BUNDLE"
ERROR_INSUFFICIENT_FEE == "ERROR_INSUFFICIENT_FEE"
ERROR_INVALID_STATE == "ERROR_INVALID_STATE"
ERROR_ORACLE_STALE_PRICE == "ERROR_ORACLE_STALE_PRICE"
ERROR_ORACLE_NETWORK_FAILURE == "ERROR_ORACLE_NETWORK_FAILURE"
ERROR_ORACLE_CACHE_MISS == "ERROR_ORACLE_CACHE_MISS"
ERROR_INSTITUTIONAL_COMPLIANCE == "ERROR_INSTITUTIONAL_COMPLIANCE"
ERROR_INSTITUTIONAL_RISK_LIMIT == "ERROR_INSTITUTIONAL_RISK_LIMIT"
NO_RESULT == "NO_RESULT"
\* The call did not return: an arithmetic overflow panicked.
PANIC == "panic"

\* ------------------------------------------------------------------------
\* Program constants.
MAX_COMPUTE_LIMIT == 1400000
MAX_SIGNATURES == 8
MAX_TIMESTAMP_DRIFT == 300
MAX_ATTESTATION_VERSION == 10
COMPUTE_UNITS_PER_LAMPORT == 1000
BASE_ORACLE_FEE == 10000
COMPLEXITY_MULTIPLIER == 2000
ORACLE_COMPLEXITY_THRESHOLD == 5
INSTITUTIONAL_BASE_FEE == 15000
ARBITRAGE_FEE == 5000
INSTITUTIONAL_COMPLEXITY_FEE == 1000
INSTITUTIONAL_COMPLEXITY_THRESHOLD == 10
COMPLIANCE_MAX_TRANSACTIONS == 50
COMPLIANCE_MIN_FEE == 20000
ARBITRAGE_MIN_PRIORITY_FEE == 100000
ORACLE_CACHE_CAPACITY == 1000
MIN_CONFIDENCE_SCORE == 30
UNIX_EPOCH == 0

\* MAX_BUNDLE_VALUE = 1_000_000_000_000 (institutional.rs:118) divided by
\* the factor 1000 of apply_risk_limits: the literal itself does not fit a
\* 32-bit integer.
MAX_BUNDLE_VALUE_DIV_1000 == 1000000000

\* 8-byte instruction discriminators.
UPDATE_PRICE == <<1, 0, 0, 0, 0, 0, 0, 0>>
UPDATE_PRICE_FEEDS == <<2, 0, 0, 0, 0, 0, 0, 0>>
SWAP == <<102, 6, 61, 18, 1, 111, 142, 165>>
PROVIDE_LIQUIDITY == <<248, 198, 158, 145, 225, 122, 156, 147>>

\* ------------------------------------------------------------------------
\* Small helpers.
Max(a, b) == IF a >= b THEN a ELSE b
Min(a, b) == IF a <= b THEN a ELSE b
Abs(a) == IF a < 0 THEN -a ELSE a
Prefix8(s) == SubSeq(s, 1, 8)

RECURSIVE SumSeq(_)
SumSeq(s) ==
    IF s = <<>> THEN 0
    ELSE IF Len(s) = 1 THEN s[1]
    ELSE LET half == Len(s) \div 2
         IN  SumSeq(SubSeq(s, 1, half)) + SumSeq(SubSeq(s, half + 1, Len(s)))

\* x >> bits on a non-negative 31-bit value.
ShiftRight(x, bits) == IF bits >= 31 THEN 0 ELSE x \div (2 ^ bits)

\* ------------------------------------------------------------------------
\* Naturals beyond 31 bits: little-endian sequences of base-2^15 limbs
\* without leading zero limbs (<<>> is 0).  u64 arithmetic is arithmetic on
\* these followed by Wrap64, with the overflow reported.
LIMB == 32768

RECURSIVE BigOf(_)
BigOf(n) == IF n = 0 THEN <<>> ELSE <<n % LIMB>> \o BigOf(n \div LIMB)

RECURSIVE BigNorm(_)
BigNorm(x) ==
    IF x = <<>> THEN <<>>
    ELSE IF x[Len(x)] = 0 THEN BigNorm(SubSeq(x, 1, Len(x) - 1))
    ELSE x

RECURSIVE BigAddCarry(_, _, _)
BigAddCarry(x, y, carry) ==
    IF x = <<>> /\ y = <<>> THEN (IF carry = 0 THEN <<>> ELSE <<carry>>)
    ELSE LET a == IF x = <<>> THEN 0 ELSE Head(x)
             b == IF y = <<>> THEN 0 ELSE Head(y)
             sum == a + b + carry
         IN  <<sum % LIMB>>
             \o BigAddCarry(IF x = <<>> THEN <<>> ELSE Tail(x),
                            IF y = <<>> THEN <<>> ELSE Tail(y), sum \div LIMB)

BigAdd(x, y) == BigNorm(BigAddCarry(x, y, 0))

\* x * k + carry for 0 <= k, carry < 2^16
RECURSIVE BigMulLimb(_, _, _)
BigMulLimb(x, k, carry) ==
    IF x = <<>> THEN BigOf(carry)
    ELSE LET product == Head(x) * k + carry
         IN  <<product % LIMB>> \o BigMulLimb(Tail(x), k, product \div LIMB)

RECURSIVE BigMul(_, _)
BigMul(x, y) ==
    IF y = <<>> \/ x = <<>> THEN <<>>
    ELSE BigAdd(BigNorm(BigMulLimb(x, Head(y), 0)), BigNorm(<<0>> \o BigMul(x, Tail(y))))

\* x < y, x <= y
RECURSIVE BigLess(_, _)
BigLess(x, y) ==
    IF Len(x) # Len(y) THEN Len(x) < Len(y)
    ELSE IF x = <<>> THEN FALSE
    ELSE IF x[Len(x)] # y[Len(y)] THEN x[Len(x)] < y[Len(y)]
    ELSE BigLess(SubSeq(x, 1, Len(x) - 1), SubSeq(y, 1, Len(y) - 1))

BigLeq(x, y) == x = y \/ BigLess(x, y)
BigMax(x, y) == IF BigLess(x, y) THEN y ELSE x

\* floor(x / k) for 0 < k <= 2^15: long division from the top limb down;
\* the record carries the quotient limbs found so far and the remainder.
RECURSIVE BigDivStep(_, _)
BigDivStep(x, k) ==
    IF x = <<>> THEN [quotient |-> <<>>, remainder |-> 0]
    ELSE LET upper == BigDivStep(Tail(x), k)
             dividend == upper.remainder * LIMB + Head(x)
         IN  [quotient |-> <<dividend \div k>> \o upper.quotient,
              remainder |-> dividend % k]

BigDiv(x, k) == BigNorm(BigDivStep(x, k).quotient)

\* floor(x / 2^bits) and x mod 2^bits
RECURSIVE BigShr(_, _)
BigShr(x, bits) ==
    IF x = <<>> THEN <<>>
    ELSE IF bits >= 15 THEN BigShr(Tail(x), bits - 15)
    ELSE BigDiv(x, 2 ^ bits)

RECURSIVE BigLow(_, _)
BigLow(x, bits) ==
    IF x = <<>> \/ bits = 0 THEN <<>>
    ELSE IF bits >= 15 THEN BigNorm(<<Head(x)>> \o BigLow(Tail(x), bits - 15))
    ELSE BigNorm(<<Head(x) % (2 ^ bits)>>)

RECURSIVE BigShl(_, _)
BigShl(x, bits) ==
    IF x = <<>> THEN <<>>
    ELSE IF bits >= 15 THEN <<0>> \o BigShl(x, bits - 15)
    ELSE BigNorm(BigMulLimb(x, 2 ^ bits, 0))

RECURSIVE BitLength(_)
BitLength(n) == IF n = 0 THEN 0 ELSE 1 + BitLength(n \div 2)

BigBitLength(x) ==
    IF x = <<>> THEN 0 ELSE 15 * (Len(x) - 1) + BitLength(x[Len(x)])

\* A natural written as groups of nine decimal digits, highest first.
RECURSIVE Decimal(_)
Decimal(groups) ==
    IF groups = <<>> THEN <<>>
    ELSE BigAdd(BigMul(Decimal(SubSeq(groups, 1, Len(groups) - 1)), BigOf(1000000000)),
                BigOf(groups[Len(groups)]))

\* u64: 2^64, u64::MAX and the wrapping operations with their overflow flag
\* (a build with overflow checks panics where the flag is set).
TWO_64 == BigShl(<<1>>, 64)
U64_MAX == <<32767, 32767, 32767, 32767, 15>>
Wrap64(x) == BigLow(x, 64)

U64Add(a, b) ==
    [overflow |-> BigLeq(TWO_64, BigAdd(a, b)), value |-> Wrap64(BigAdd(a, b))]

U64Mul(a, b) ==
    [overflow |-> BigLeq(TWO_64, BigMul(a, b)), value |-> Wrap64(BigMul(a, b))]

\* x as f64, and an f64 product before the cast: the nearest natural with
\* at most 53 significant bits, ties to the even one.
RoundF64(x) ==
    LET drop == BigBitLength(x) - 53
    IN  IF drop <= 0 THEN x
        ELSE LET kept == BigShr(x, drop)
                 rest == BigLow(x, drop)
                 half == BigShl(<<1>>, drop - 1)
                 up == \/ BigLess(half, rest)
                       \/ (rest = half /\ kept[1] % 2 = 1)
             IN  BigShl(IF up THEN BigAdd(kept, <<1>>) ELSE kept, drop)

\* x - y for x >= y
RECURSIVE BigSubBorrow(_, _, _)
BigSubBorrow(x, y, borrow) ==
    IF x = <<>> THEN <<>>
    ELSE LET b == IF y = <<>> THEN 0 ELSE Head(y)
             diff == Head(x) - b - borrow
         IN  <<(diff + LIMB) % LIMB>>
             \o BigSubBorrow(Tail(x), IF y = <<>> THEN <<>> ELSE Tail(y),
                             IF diff < 0 THEN 1 ELSE 0)

BigSub(x, y) == BigNorm(BigSubBorrow(x, y, 0))

\* floor(x / y) and x mod y for y > 0: long division from the top limb
\* down; BigDivDigit finds a quotient limb, the largest digit with
\* digit * y <= x, bit by bit.
RECURSIVE BigDivDigit(_, _, _, _)
BigDivDigit(x, y, digit, bit) ==
    IF bit < 0 THEN digit
    ELSE IF BigLeq(BigNorm(BigMulLimb(y, digit + 2 ^ bit, 0)), x)
    THEN BigDivDigit(x, y, digit + 2 ^ bit, bit - 1)
    ELSE BigDivDigit(x, y, digit, bit - 1)

RECURSIVE BigDivMod(_, _)
BigDivMod(x, y) ==
    IF x = <<>> THEN [quotient |-> <<>>, remainder |-> <<>>]
    ELSE LET upper == BigDivMod(Tail(x), y)
             dividend == BigNorm(<<Head(x)>> \o upper.remainder)
             digit == BigDivDigit(dividend, y, 0, 14)
         IN  [quotient |-> BigNorm(<<digit>> \o upper.quotient),
              remainder |-> BigSub(dividend, BigNorm(BigMulLimb(y, digit, 0)))]

\* i64 values as sign and magnitude (zero has neg = FALSE).
I64Of(n) == [mag |-> BigOf(IF n < 0 THEN 0 - n ELSE n), neg |-> n < 0]
I64_MIN == [mag |-> BigShl(<<1>>, 63), neg |-> TRUE]
I64_MAX == [mag |-> BigSub(BigShl(<<1>>, 63), <<1>>), neg |-> FALSE]

\* The exact difference a - b of two signed values.
SignedSub(a, b) ==
    IF a.neg # b.neg \/ b.mag = <<>>
    THEN [mag |-> BigAdd(a.mag, b.mag),
          neg |-> IF a.mag = <<>> THEN ~b.neg /\ b.mag # <<>> ELSE a.neg]
    ELSE IF BigLess(a.mag, b.mag)
    THEN [mag |-> BigSub(b.mag, a.mag), neg |-> ~a.neg]
    ELSE [mag |-> BigSub(a.mag, b.mag), neg |-> a.neg /\ a.mag # b.mag]

SignedLess(a, b) == LET d == SignedSub(a, b) IN d.neg

\* i64 arithmetic: the two's-complement result of a value in (-2^64, 2^64)
\* with its overflow flag (a build with overflow checks panics where the
\* flag is set).
I64Wrap(x) ==
    IF ~x.neg /\ BigLeq(BigShl(<<1>>, 63), x.mag)
    THEN [overflow |-> TRUE, value |-> [mag |-> BigSub(TWO_64, x.mag), neg |-> TRUE]]
    ELSE IF x.neg /\ BigLess(BigShl(<<1>>, 63), x.mag)
    THEN [overflow |-> TRUE, value |-> [mag |-> BigSub(TWO_64, x.mag), neg |-> FALSE]]
    ELSE [overflow |-> FALSE, value |-> x]

I64Sub(a, b) == I64Wrap(SignedSub(a, b))

\* i64::abs: the magnitude, except that -2^63 has none in i64.
I64Abs(a) == I64Wrap([mag |-> a.mag, neg |-> FALSE])

\* F64Div(x, y, scale) is the correctly rounded f64 quotient of two
\* positive f64 integers, in units of 2^-scale: the quotient bits with a
\* sticky bit for a non-zero remainder, rounded to 53 significant bits
\* (F64DivScale leaves at least 55 quotient bits).
F64DivScale(x, y) ==
    LET more == 55 + BigBitLength(y) - BigBitLength(x)
    IN  IF more > 56 THEN more ELSE 56

F64Div(x, y, scale) ==
    LET d == BigDivMod(BigShl(x, scale), y)
        sticky == IF d.remainder # <<>> /\ d.quotient[1] % 2 = 0
                  THEN BigAdd(d.quotient, <<1>>) ELSE d.quotient
    IN  RoundF64(sticky)

\* The f64 literal 0.1 is 7205759403792794 * 2^-56 (bits 0x3FB999999999999A).
F64_0_1_MANTISSA == Decimal(<<7205759, 403792794>>)
F64_0_1_EXPONENT == 56

\* ------------------------------------------------------------------------
\* f32 values.  F32_0_001 is the f32 nearest to 0.001 (bits 0x3A83126F):
\* 8589935 / 2^33 = 0.001000000047497451...
F32_0_001 == [m |-> 8589935, e |-> 33]
F32_0_5 == [m |-> 1, e |-> 1]

Digit128(x, j) == ShiftRight(x, 7 * j) % 128

\* floor((sum of the j+1 low base-128 digits of x, times m) / 128^j)
RECURSIVE LowProduct(_, _, _)
LowProduct(x, m, j) ==
    IF j = 0 THEN Digit128(x, 0) * m
    ELSE Digit128(x, j) * m + (LowProduct(x, m, j - 1) \div 128)

\* (x as f64 * f as f64) as u64 = floor(x * m / 2^e); the f64 product is
\* exact while x * m < 2^53, i.e. for every x below 2^29.
MulF32Floor(x, f) ==
    LET k == f.e \div 7
        r == f.e % 7
        shifted == LowProduct(x, f.m, k) + 128 * f.m * ShiftRight(x, 7 * (k + 1))
    IN  shifted \div (2 ^ r)

\* ------------------------------------------------------------------------
\* validation.rs

\* validate_metadata: Ok <=> TRUE
validate_metadata(metadata, current_time) ==
    /\ metadata.slot # 0
    /\ Abs(current_time - metadata.timestamp) <= MAX_TIMESTAMP_DRIFT
    /\ metadata.leader_pubkey # 0

\* validate_attestation: Ok <=> TRUE
validate_attestation(attestation) ==
    /\ ~(attestation.version = 0 \/ attestation.version > MAX_ATTESTATION_VERSION)
    /\ attestation.node_id # 0
    /\ attestation.bundle_hash # 0
    /\ ~(~attestation.tee_report_is_null /\ attestation.tee_report_len = 0)

\* validate_message: Ok <=> TRUE
validate_message(msg) ==
    /\ msg.header.num_required_signatures # 0
    /\ msg.header.num_required_signatures <= msg.account_keys_count
    /\ msg.account_keys_count # 0
    /\ ~msg.account_keys_is_null
    /\ msg.instructions_count # 0
    /\ ~msg.instructions_is_null
    /\ msg.recent_blockhash # 0

\* validate_transaction: Ok <=> TRUE
\* validate_transaction with the upper compute bound made exclusive.
validate_transaction_exclusive(tx) ==
    /\ tx.signature_count # 0
    /\ tx.signature_count <= MAX_SIGNATURES
    /\ ~tx.signatures_is_null
    /\ validate_message(tx.message)
    /\ tx.compute_limit # 0
    /\ tx.compute_limit < MAX_COMPUTE_LIMIT

validate_transaction(tx) ==
    /\ tx.signature_count # 0
    /\ tx.signature_count <= MAX_SIGNATURES
    /\ ~tx.signatures_is_null
    /\ validate_message(tx.message)
    /\ tx.compute_limit # 0
    /\ tx.compute_limit <= MAX_COMPUTE_LIMIT

\* validate_bundle with the transactions pointer tested before the count.
validate_bundle_pointer_first(bundle, current_time) ==
    IF bundle.transactions_is_null THEN ERROR_NULL_POINTER
    ELSE IF bundle.transaction_count = 0 THEN ERROR_INVALID_BUNDLE
    ELSE IF ~validate_metadata(bundle.metadata, current_time) THEN ERROR_INVALID_BUNDLE
    ELSE IF ~bundle.attestation_is_null /\ ~validate_attestation(bundle.attestation)
         THEN ERROR_INVALID_BUNDLE
    ELSE IF \E i \in 1..bundle.transaction_count :
                ~validate_transaction(bundle.transactions[i])
         THEN ERROR_INVALID_BUNDLE
    ELSE SUCCESS

validate_bundle(bundle, current_time) ==
    IF bundle.transaction_count = 0 THEN ERROR_INVALID_BUNDLE
    ELSE IF bundle.transactions_is_null THEN ERROR_NULL_POINTER
    ELSE IF ~validate_metadata(bundle.metadata, current_time) THEN ERROR_INVALID_BUNDLE
    ELSE IF ~bundle.attestation_is_null /\ ~validate_attestation(bundle.attestation)
         THEN ERROR_INVALID_BUNDLE
    ELSE IF \E i \in 1..bundle.transaction_count :
                ~validate_transaction(bundle.transactions[i])
         THEN ERROR_INVALID_BUNDLE
    ELSE SUCCESS

\* ------------------------------------------------------------------------
\* fees.rs

calculate_total_priority_fees(bundle) ==
    IF bundle.transactions_is_null THEN 0
    ELSE SumSeq([i \in 1..bundle.transaction_count |->
                    bundle.transactions[i].priority_fee])

calculate_compute_fee(bundle) ==
    IF bundle.transactions_is_null THEN 0
    ELSE SumSeq([i \in 1..bundle.transaction_count |->
                    bundle.transactions[i].compute_limit])
            \div COMPUTE_UNITS_PER_LAMPORT

\* calculate_bundle_fee adding the three terms instead of taking their
\* maximum.
calculate_bundle_fee_sum(bundle, min_fee, fee_percentage) ==
    min_fee * bundle.transaction_count
        + MulF32Floor(calculate_total_priority_fees(bundle), fee_percentage)
        + calculate_compute_fee(bundle)

\* calculate_bundle_fee with the (min_fee, fee_percentage) pair it read
\* from PLUGIN_STATE.
calculate_bundle_fee(bundle, min_fee, fee_percentage) ==
    LET base_fee == min_fee * bundle.transaction_count
        total_priority_fees == calculate_total_priority_fees(bundle)
        percentage_fee == MulF32Floor(total_priority_fees, fee_percentage)
        compute_fee == calculate_compute_fee(bundle)
    IN  Max(Max(base_fee, percentage_fee), compute_fee)

\* calculate_bundle_fee over the whole range of its integer fields:
\* priority_fee (u64) and compute_limit (u32) are limb sequences, and the
\* result records whether the call panicked on an overflow.  The sum
\* of the priority fees is a u64 sum; the compute limits are summed as u64
\* and cannot overflow (at most 2^32 - 1 terms below 2^32).
RECURSIVE total_priority_fees_u64(_, _)
total_priority_fees_u64(transactions, n) ==
    IF n = 0 THEN [overflow |-> FALSE, value |-> <<>>]
    ELSE LET before == total_priority_fees_u64(transactions, n - 1)
             after == U64Add(before.value, transactions[n].priority_fee)
         IN  [overflow |-> before.overflow \/ after.overflow, value |-> after.value]

RECURSIVE total_compute_u64(_, _)
total_compute_u64(transactions, n) ==
    IF n = 0 THEN <<>>
    ELSE BigAdd(total_compute_u64(transactions, n - 1), transactions[n].compute_limit)

\* (x as f64 * f as f64) as u64: both roundings of the f64 arithmetic, then
\* the truncating, saturating cast.
MulF32FloorU64(x, f) ==
    LET product == RoundF64(BigMul(RoundF64(x), BigOf(f.m)))
        truncated == BigShr(product, f.e)
    IN  IF BigLess(U64_MAX, truncated) THEN U64_MAX ELSE truncated

calculate_bundle_fee_u64(bundle, min_fee, fee_percentage, checked) ==
    LET n == IF bundle.transactions_is_null THEN 0 ELSE bundle.transaction_count
        base_fee == U64Mul(BigOf(min_fee), BigOf(bundle.transaction_count))
        total_priority_fees == total_priority_fees_u64(bundle.transactions, n)
        percentage_fee == MulF32FloorU64(total_priority_fees.value, fee_percentage)
        compute_fee == BigDiv(total_compute_u64(bundle.transactions, n),
                              COMPUTE_UNITS_PER_LAMPORT)
    IN  IF checked /\ (base_fee.overflow \/ total_priority_fees.overflow)
        THEN [value |-> <<>>, panicked |-> TRUE]
        ELSE [value |-> BigMax(BigMax(base_fee.value, percentage_fee), compute_fee),
              panicked |-> FALSE]

\* ------------------------------------------------------------------------
\* oracle.rs

is_price_update_instruction(instruction) ==
    /\ ~instruction.data_is_null
    /\ Len(instruction.data) >= 8
    /\ \/ Prefix8(instruction.data) = UPDATE_PRICE
       \/ Prefix8(instruction.data) = UPDATE_PRICE_FEEDS

\* extract_price_account: <<>> is None, <<key>> is Some(key).  Account
\* indices are 0-based as in the source.
extract_price_account(instruction, message) ==
    IF instruction.accounts_is_null \/ Len(instruction.accounts) = 0 THEN <<>>
    ELSE IF message.account_keys_is_null \/ message.account_keys_count = 0 THEN <<>>
    ELSE LET account_index == instruction.accounts[1]
         IN  IF account_index < message.account_keys_count
             THEN <<message.account_keys[account_index + 1]>>
             ELSE <<>>

derive_price_id_from_account(price_account) == price_account

\* Injection points of one transaction from instruction inst_idx on.
RECURSIVE InstructionPoints(_, _, _)
InstructionPoints(tx, tx_idx, inst_idx) ==
    IF inst_idx > tx.message.instructions_count THEN <<>>
    ELSE LET instruction == tx.message.instructions[inst_idx]
             account == extract_price_account(instruction, tx.message)
             here == IF is_price_update_instruction(instruction) /\ account # <<>>
                     THEN <<[price_account |-> account[1],
                             transaction_index |-> tx_idx - 1,
                             instruction_index |-> inst_idx - 1,
                             required_price_id |->
                                 derive_price_id_from_account(account[1])]>>
                     ELSE <<>>
         IN  here \o InstructionPoints(tx, tx_idx, inst_idx + 1)

\* The points of transactions first..last in transaction order (the range
\* is halved so that the evaluation depth stays logarithmic).
RECURSIVE TransactionPoints(_, _, _)
TransactionPoints(bundle, first, last) ==
    IF first > last THEN <<>>
    ELSE IF first = last
    THEN LET tx == bundle.transactions[first]
         IN  IF tx.message.instructions_is_null THEN <<>>
             ELSE InstructionPoints(tx, first, 1)
    ELSE LET middle == (first + last) \div 2
         IN  TransactionPoints(bundle, first, middle)
                 \o TransactionPoints(bundle, middle + 1, last)

extract_price_injection_points(bundle) ==
    IF bundle.transactions_is_null \/ bundle.transaction_count = 0 THEN <<>>
    ELSE TransactionPoints(bundle, 1, bundle.transaction_count)

\* confidence_ratio = conf / |price| * 100 compared with the thresholds by
\* cross-multiplication; price = 0 gives the ratio 100.0.
calculate_price_confidence_score(price_data, current_time) ==
    LET age_seconds == current_time - price_data.publish_time
        zero == price_data.price = 0
        p == Abs(price_data.price)
        age_score == IF age_seconds < 10 THEN 100
                     ELSE IF age_seconds < 30 THEN 80
                     ELSE IF age_seconds < 60 THEN 50
                     ELSE 20
        conf_score == IF ~zero /\ price_data.conf * 1000 < p THEN 100
                      ELSE IF ~zero /\ price_data.conf * 200 < p THEN 80
                      ELSE IF ~zero /\ price_data.conf * 100 < p THEN 60
                      ELSE 30
    IN  Min((age_score + conf_score) \div 2, 100)

\* calculate_price_confidence_score over the whole range of its fields:
\* price and publish_time (i64) are signed values, conf (u64) a limb
\* sequence, and the result records whether the call panicked on an
\* overflow.  confidence_ratio is an f64, here sign and magnitude in units
\* of 2^-scale: 100.0 for a zero price, negative (or -0.0) when abs()
\* wrapped to i64::MIN, otherwise the rounded quotient of the two casts
\* times 100.0, rounded again.
confidence_ratio_zero(price_data, abs) ==
    IF price_data.price.mag = <<>> THEN [mag |-> <<>>, neg |-> FALSE, scale |-> 0]
    ELSE IF abs.neg THEN [mag |-> <<>>, neg |-> TRUE, scale |-> 0]
    ELSE LET conf == RoundF64(price_data.conf)
             price == RoundF64(abs.mag)
             scale == F64DivScale(conf, price)
         IN  [mag |-> RoundF64(BigMul(F64Div(conf, price, scale), BigOf(100))),
              neg |-> FALSE,
              scale |-> scale]

confidence_ratio(price_data, abs) ==
    IF price_data.price.mag = <<>> THEN [mag |-> BigOf(100), neg |-> FALSE, scale |-> 0]
    ELSE IF abs.neg THEN [mag |-> <<>>, neg |-> TRUE, scale |-> 0]
    ELSE LET conf == RoundF64(price_data.conf)
             price == RoundF64(abs.mag)
             scale == F64DivScale(conf, price)
         IN  [mag |-> RoundF64(BigMul(F64Div(conf, price, scale), BigOf(100))),
              neg |-> FALSE,
              scale |-> scale]

\* x < mantissa * 2^-exponent for a positive literal
F64Less(x, mantissa, exponent) ==
    x.neg \/ BigLess(BigShl(x.mag, exponent), BigShl(mantissa, x.scale))

calculate_price_confidence_score_i64(price_data, current_time, checked) ==
    LET age_seconds == I64Sub(current_time, price_data.publish_time)
        abs == I64Abs(price_data.price)
        ratio == confidence_ratio(price_data, abs.value)
        age_score == IF SignedLess(age_seconds.value, I64Of(10)) THEN 100
                     ELSE IF SignedLess(age_seconds.value, I64Of(30)) THEN 80
                     ELSE IF SignedLess(age_seconds.value, I64Of(60)) THEN 50
                     ELSE 20
        conf_score == IF F64Less(ratio, F64_0_1_MANTISSA, F64_0_1_EXPONENT) THEN 100
                      ELSE IF F64Less(ratio, <<1>>, 1) THEN 80
                      ELSE IF F64Less(ratio, <<1>>, 0) THEN 60
                      ELSE 30
    IN  IF checked /\ (age_seconds.overflow \/ abs.overflow)
        THEN [value |-> 0, panicked |-> TRUE]
        ELSE [value |-> Min((age_score + conf_score) \div 2, 100), panicked |-> FALSE]

\* OracleCache.prices: the LRU cache as a sequence of [id, data] entries,
\* most recently used first.
CacheIndex(prices, price_id) ==
    IF \E i \in 1..Len(prices) : prices[i].id = price_id
    THEN CHOOSE i \in 1..Len(prices) : prices[i].id = price_id
    ELSE 0

CacheRemove(prices, i) ==
    SubSeq(prices, 1, i - 1) \o SubSeq(prices, i + 1, Len(prices))

\* LruCache::get without the promotion of the entry to most recently used
\* (LruCache::peek).
CachePeek(prices, price_id) == prices

\* LruCache::get: the entry, promoted to most recently used.
CacheTouch(prices, price_id) ==
    LET i == CacheIndex(prices, price_id)
    IN  IF i = 0 THEN prices ELSE <<prices[i]>> \o CacheRemove(prices, i)

\* LruCache::put: replace or insert as most recently used, evicting the
\* least recently used entry of a full cache.
CachePut(prices, price_id, price_data) ==
    LET i == CacheIndex(prices, price_id)
        entry == [data |-> price_data, id |-> price_id]
    IN  IF i # 0 THEN <<entry>> \o CacheRemove(prices, i)
        ELSE IF Len(prices) >= ORACLE_CACHE_CAPACITY
             THEN <<entry>> \o SubSeq(prices, 1, Len(prices) - 1)
             ELSE <<entry>> \o prices

\* ------------------------------------------------------------------------
\* pyth_client.rs

\* The millisecond comparison of should_refresh on whole-second clocks.
should_refresh(client, current_time) ==
    (current_time - client.last_fetch_time) * 1000 > client.config.update_interval_ms

\* is_price_stale taking the age limit for milliseconds.
is_price_stale_millis(client, price_data, current_time) ==
    (current_time - price_data.publish_time) * 1000
        > client.config.max_price_age_seconds * 1000 * 1000

is_price_stale(client, price_data, current_time) ==
    current_time - price_data.publish_time > client.config.max_price_age_seconds

\* PythClient::get_cached_price as a Result: the cached price whatever
\* its age.
get_cached_price(client, price_id, current_time) ==
    LET i == CacheIndex(client.cache.prices, price_id)
    IN  IF i = 0 THEN [ok |-> FALSE, code |-> ERROR_ORACLE_CACHE_MISS]
        ELSE [data |-> client.cache.prices[i].data, ok |-> TRUE]

\* get_oracle_price: the Result it returns for the client as locked.
get_oracle_price(client, price_id, current_time) ==
    LET i == CacheIndex(client.cache.prices, price_id)
    IN  IF i = 0 THEN [ok |-> FALSE, code |-> ERROR_ORACLE_CACHE_MISS]
        ELSE IF is_price_stale(client, client.cache.prices[i].data, current_time)
             THEN [ok |-> FALSE, code |-> ERROR_ORACLE_STALE_PRICE]
             ELSE [data |-> client.cache.prices[i].data, ok |-> TRUE]

\* ------------------------------------------------------------------------
\* oracle_processing.rs

\* calculate_oracle_processing_fee without the complexity fee.
calculate_oracle_processing_fee_flat(injection_points) ==
    Len(injection_points) * BASE_ORACLE_FEE

calculate_oracle_processing_fee(injection_points) ==
    LET n == Len(injection_points)
        base_total == n * BASE_ORACLE_FEE
        complexity_fee == IF n > ORACLE_COMPLEXITY_THRESHOLD
                          THEN (n - ORACLE_COMPLEXITY_THRESHOLD) * COMPLEXITY_MULTIPLIER
                          ELSE 0
    IN  base_total + complexity_fee

\* ------------------------------------------------------------------------
\* institutional.rs

is_market_maker_transaction(tx) ==
    /\ ~tx.message.instructions_is_null
    /\ \E i \in 1..tx.message.instructions_count :
          LET instruction == tx.message.instructions[i]
          IN  /\ Len(instruction.data) > 0
              /\ ~instruction.data_is_null
              /\ Len(instruction.data) >= 8
              /\ Prefix8(instruction.data) \in {SWAP, PROVIDE_LIQUIDITY}

\* validate_compliance with the transaction limit made exclusive: a bundle
\* of exactly 50 transactions is rejected.
validate_compliance_exclusive(bundle) ==
    IF bundle.transactions_is_null \/ bundle.transaction_count = 0 THEN SUCCESS
    ELSE IF bundle.transaction_count >= COMPLIANCE_MAX_TRANSACTIONS
         THEN ERROR_INSTITUTIONAL_COMPLIANCE
    ELSE IF bundle.metadata.plugin_fees < COMPLIANCE_MIN_FEE
         THEN ERROR_INSUFFICIENT_FEE
    ELSE SUCCESS

\* validate_compliance: SUCCESS stands for Ok(()).
validate_compliance(bundle) ==
    IF bundle.transactions_is_null \/ bundle.transaction_count = 0 THEN SUCCESS
    ELSE IF bundle.transaction_count > COMPLIANCE_MAX_TRANSACTIONS
         THEN ERROR_INSTITUTIONAL_COMPLIANCE
    ELSE IF bundle.metadata.plugin_fees < COMPLIANCE_MIN_FEE
         THEN ERROR_INSUFFICIENT_FEE
    ELSE SUCCESS

\* apply_risk_limits: sum(priority_fee * 1000) > MAX_BUNDLE_VALUE, compared
\* after dividing both sides by 1000 (no u64 wrap-around below 2^31).
apply_risk_limits(bundle) ==
    IF bundle.transactions_is_null \/ bundle.transaction_count = 0 THEN SUCCESS
    ELSE IF calculate_total_priority_fees(bundle) > MAX_BUNDLE_VALUE_DIV_1000
         THEN ERROR_INSTITUTIONAL_RISK_LIMIT
    ELSE SUCCESS

\* apply_risk_limits over the whole u64 range (priority_fee is a limb
\* sequence): total_estimated_value += priority_fee * 1000 in u64, for the
\* first n transactions; overflow tells whether a step overflowed.
RECURSIVE total_estimated_value(_, _)
total_estimated_value(transactions, n) ==
    IF n = 0 THEN [overflow |-> FALSE, value |-> <<>>]
    ELSE LET before == total_estimated_value(transactions, n - 1)
             term == U64Mul(transactions[n].priority_fee, BigOf(1000))
             after == U64Add(before.value, term.value)
         IN  [overflow |-> before.overflow \/ term.overflow \/ after.overflow,
              value |-> after.value]

MAX_BUNDLE_VALUE == BigMul(BigOf(MAX_BUNDLE_VALUE_DIV_1000), BigOf(1000))

apply_risk_limits_u64(bundle, checked) ==
    IF bundle.transactions_is_null \/ bundle.transaction_count = 0 THEN SUCCESS
    ELSE LET total == total_estimated_value(bundle.transactions, bundle.transaction_count)
         IN  IF checked /\ total.overflow THEN PANIC
             ELSE IF BigLess(MAX_BUNDLE_VALUE, total.value)
                  THEN ERROR_INSTITUTIONAL_RISK_LIMIT
             ELSE SUCCESS

\* InstitutionalSequencer::new(&get_default_institutional_config())
DefaultSequencer ==
    [market_maker_priority |-> TRUE, cross_chain_enabled |-> TRUE,
     compliance_enabled |-> TRUE]

sequence_institutional_bundle(sequencer, bundle) ==
    IF sequencer.compliance_enabled /\ validate_compliance(bundle) # SUCCESS
    THEN validate_compliance(bundle)
    ELSE apply_risk_limits(bundle)

has_arbitrage_potential(tx) ==
    /\ ~tx.message.instructions_is_null
    /\ tx.message.instructions_count >= 2
    /\ \E i \in 1..tx.message.instructions_count :
          LET inst == tx.message.instructions[i]
          IN  /\ Len(inst.data) >= 8
              /\ ~inst.data_is_null
              /\ Prefix8(inst.data) = SWAP
    /\ tx.priority_fee > ARBITRAGE_MIN_PRIORITY_FEE

\* Number of opportunities detect_arbitrage_opportunities returns.
detect_arbitrage_opportunities(bundle) ==
    IF bundle.transactions_is_null \/ bundle.transaction_count = 0 THEN 0
    ELSE Cardinality({i \in 1..bundle.transaction_count :
                         has_arbitrage_potential(bundle.transactions[i])})

calculate_institutional_fee(bundle, arbitrage_count) ==
    LET base_fee == INSTITUTIONAL_BASE_FEE
        arbitrage_fee == arbitrage_count * ARBITRAGE_FEE
        complexity_fee ==
            IF bundle.transaction_count > INSTITUTIONAL_COMPLEXITY_THRESHOLD
            THEN (bundle.transaction_count - INSTITUTIONAL_COMPLEXITY_THRESHOLD)
                 * INSTITUTIONAL_COMPLEXITY_FEE
            ELSE 0
    IN  base_fee + arbitrage_fee + complexity_fee

\* ------------------------------------------------------------------------
\* Decisions taken inside the entry points.

\* processing.rs: "Check bundle size limits"
bundle_size_check(bundle, config) ==
    IF bundle.transaction_count > config.max_bundle_size
    THEN ERROR_INVALID_BUNDLE ELSE SUCCESS

\* The fee comparison made exclusive: a fee equal to the required fee is
\* rejected.
fee_check_exclusive(bundle, required_fee) ==
    IF bundle.metadata.plugin_fees <= required_fee
    THEN ERROR_INSUFFICIENT_FEE ELSE SUCCESS

\* processing.rs / oracle_processing.rs: plugin_fees < required fee
fee_check(bundle, required_fee) ==
    IF bundle.metadata.plugin_fees < required_fee
    THEN ERROR_INSUFFICIENT_FEE ELSE SUCCESS

\* oracle_processing.rs Step 3: confidence_score < 30
confidence_check(price_data, current_time) ==
    IF calculate_price_confidence_score(price_data, current_time) < MIN_CONFIDENCE_SCORE
    THEN ERROR_ORACLE_STALE_PRICE ELSE SUCCESS

\* ------------------------------------------------------------------------
\* types.rs / oracle.rs defaults.
DefaultConfig ==
    [fee_percentage |-> F32_0_001, max_bundle_size |-> 100,
     min_fee_lamports |-> 5000, enable_metrics |-> TRUE]

NoError == [timestamp |-> 0, is_some |-> FALSE]

DefaultPluginState ==
    [config |-> DefaultConfig, bundles_processed |-> 0,
     total_fees_collected |-> 0, average_processing_time_us |-> 0,
     last_error |-> NoError]

DefaultOracleConfig ==
    [update_interval_ms |-> 1000, max_price_age_seconds |-> 30]

\* An OracleConfig a host may pass to initialize_pyth_client instead.
LaxOracleConfig ==
    [update_interval_ms |-> 1000, max_price_age_seconds |-> 120]

OracleConfigs == {DefaultOracleConfig, LaxOracleConfig}

\* A client that is created with its HTTP client in place.
ReadyPythClient ==
    [last_fetch_time |-> UNIX_EPOCH,
     config |-> DefaultOracleConfig,
     cache |-> [prices |-> <<>>, last_update |-> UNIX_EPOCH],
     http_client |-> TRUE]

\* PythClient::new()
NewPythClient ==
    [last_fetch_time |-> UNIX_EPOCH,
     config |-> DefaultOracleConfig,
     cache |-> [prices |-> <<>>, last_update |-> UNIX_EPOCH],
     http_client |-> FALSE]

\* ------------------------------------------------------------------------
\* Bounds and input domains.

\* Clock value at start-up and the last value the clock reaches.
StartTime == 1000
MaxClockTicks == 1

\* Calls of a process_* entry point per behaviour, and the host threads
\* that make them.
MaxCalls == 2
Evaluations == {1, 2, 3}
Threads == {1, 2}

Entries == {"process_bundle_forwarding", "process_bundle_v2", "process_bundle_v3"}

\* Latency samples (microseconds) handed to update_processing_metrics.
Samples == {40}

\* Configurations plugin_init / set_plugin_state can install.
SmallConfig ==
    [fee_percentage |-> F32_0_5, max_bundle_size |-> 1,
     min_fee_lamports |-> 1000, enable_metrics |-> FALSE]

Configs == {DefaultConfig, SmallConfig}

\* A configuration whose tier-1 fee of 50 test transactions is below the
\* minimum fee of the compliance step.
LowFeeConfig ==
    [fee_percentage |-> F32_0_001, max_bundle_size |-> 100,
     min_fee_lamports |-> 100, enable_metrics |-> TRUE]

\* States set_plugin_state can install (a checkpoint being restored).
RestoredStates ==
    {[DefaultPluginState EXCEPT !.bundles_processed = 7,
                                !.total_fees_collected = 7 * 15000]}

\* Feed ids are the account keys 12 and 13 of the test transactions.
\* A price published age seconds before t.
FetchedPrice(t, age) ==
    [publish_time |-> t - age, price |-> 100000000, conf |-> 50000, expo |-> -6]

\* An old price with a confidence interval of 2% of the price.
UncertainPrice(t) ==
    [publish_time |-> t - 60, price |-> 100000000, conf |-> 2000000, expo |-> -6]

\* What one fetch_all_prices round at time t commits: nothing, one feed
\* or both, fresh, at the age limit (stale one second later) or stale.
FetchUpdates(t) ==
    {<<>>}
    \cup {<<[data |-> FetchedPrice(t, age), id |-> 12]>> : age \in {0, 30, 31}}
    \cup {<<[data |-> UncertainPrice(t), id |-> 12]>>}
    \cup {<<[data |-> FetchedPrice(t, age), id |-> 12],
             [data |-> FetchedPrice(t, 0), id |-> 13]>> : age \in {0, 30}}

\* Instructions.
Instruction(accounts, data) ==
    [data_is_null |-> FALSE, data |-> data, accounts_is_null |-> FALSE,
     accounts |-> accounts, program_id_index |-> 0]

TransferInstruction == Instruction(<<0, 1>>, <<1, 0, 0, 0>>)
SwapInstruction == Instruction(<<0, 1, 2>>, SWAP \o <<9>>)
PriceUpdateInstruction(account_index) == Instruction(<<account_index, 0>>, UPDATE_PRICE \o <<9>>)
PriceFeedsInstruction(account_index) == Instruction(<<account_index>>, UPDATE_PRICE_FEEDS)

\* create_test_transaction() of the test suite, with the given
\* instructions, priority fee and compute limit.
Transaction(instructions, priority_fee, compute_limit) ==
    [signature_count |-> 1, signatures_is_null |-> FALSE,
     message |-> [header |-> [num_required_signatures |-> 1],
                  account_keys_count |-> 3,
                  account_keys_is_null |-> FALSE,
                  instructions_count |-> Len(instructions),
                  instructions_is_null |-> FALSE,
                  recent_blockhash |-> 1,
                  account_keys |-> <<11, 12, 13>>,
                  instructions |-> instructions],
     compute_limit |-> compute_limit, priority_fee |-> priority_fee]

TestTransaction == Transaction(<<TransferInstruction>>, 5000, 200000)

NoAttestation ==
    [version |-> 0, node_id |-> 0, bundle_hash |-> 0,
     tee_report_is_null |-> TRUE, tee_report_len |-> 0]

TestAttestation ==
    [version |-> 1, node_id |-> 7, bundle_hash |-> 9,
     tee_report_is_null |-> FALSE, tee_report_len |-> 64]

\* create_test_bundle() of the test suite over the given transactions.
Bundle(transactions, plugin_fees) ==
    [metadata |-> [slot |-> 100000, timestamp |-> StartTime, leader_pubkey |-> 1,
                   plugin_fees |-> plugin_fees, tip_amount |-> 5000],
     attestation |-> NoAttestation,
     transactions_is_null |-> FALSE,
     transaction_count |-> Len(transactions),
     attestation_is_null |-> TRUE,
     transactions |-> transactions]

Repeat(tx, n) == [i \in 1..n |-> tx]

WithCompute(c) == Transaction(<<TransferInstruction>>, 5000, c)
WithPriority(p) == Transaction(<<TransferInstruction>>, p, 200000)
OracleTransaction(instructions) == Transaction(instructions, 5000, 200000)
ArbitrageTransaction == Transaction(<<SwapInstruction, TransferInstruction>>, 100001, 200000)

\* Bundles the validator rejects for their shape.
MalformedBundles ==
    {[Bundle(<<>>, f) EXCEPT !.transactions_is_null = n] :
        f \in {0, 15000}, n \in BOOLEAN}
    \cup {[Bundle(<<TestTransaction>>, 15000) EXCEPT !.transactions_is_null = TRUE]}
    \cup {[Bundle(<<TestTransaction>>, 15000) EXCEPT !.metadata.slot = 0],
          [Bundle(<<TestTransaction>>, 15000) EXCEPT !.metadata.leader_pubkey = 0]}
    \cup {[Bundle(<<TestTransaction>>, 15000) EXCEPT !.metadata.timestamp = ts] :
            ts \in {StartTime - 301, StartTime - 299, StartTime + 301}}
    \cup {[Bundle(<<TestTransaction>>, 15000) EXCEPT
              !.attestation_is_null = FALSE, !.attestation = a] :
            a \in {TestAttestation,
                   [TestAttestation EXCEPT !.version = 0],
                   [TestAttestation EXCEPT !.version = 11],
                   [TestAttestation EXCEPT !.node_id = 0],
                   [TestAttestation EXCEPT !.bundle_hash = 0],
                   [TestAttestation EXCEPT !.tee_report_len = 0]}}
    \cup {Bundle(<<tx>>, 15000) :
            tx \in {[TestTransaction EXCEPT !.signature_count = 0],
                    [TestTransaction EXCEPT !.signature_count = 9],
                    [TestTransaction EXCEPT !.signatures_is_null = TRUE],
                    [TestTransaction EXCEPT !.message.header.num_required_signatures = 0],
                    [TestTransaction EXCEPT !.message.header.num_required_signatures = 4],
                    [TestTransaction EXCEPT !.message.account_keys_is_null = TRUE],
                    [TestTransaction EXCEPT !.message.instructions_is_null = TRUE],
                    [TestTransaction EXCEPT !.message.instructions_count = 0,
                                            !.message.instructions = <<>>],
                    [TestTransaction EXCEPT !.message.recent_blockhash = 0]}}

\* Compute limits around both ends of the valid range.
ComputeBundles ==
    {Bundle(<<WithCompute(c)>>, f) :
        c \in {0, 1, 1400000, 1400001, 2000000}, f \in {0, 25000}}
    \cup {Bundle(<<TestTransaction, WithCompute(c)>>, 25000) : c \in {0, 1400000, 1400001}}
    \cup {Bundle(<<[TestTransaction EXCEPT !.signature_count = 0], WithCompute(0)>>, 25000)}

\* Fees offered at and around the required fee of each tier.
FeeBundles ==
    {Bundle(<<TestTransaction>>, f) :
        f \in {0, 100, 999, 1000, 2499, 2500, 4999, 5000, 15000, 19999, 20000}}
    \cup {Bundle(<<WithPriority(10000000)>>, f) : f \in {9999, 10000, 10001}}
    \cup {Bundle(<<Transaction(<<TransferInstruction>>, 0, 1400000)>>, f) :
            f \in {1399, 1400, 4999, 5000}}
    \cup {Bundle(Repeat(TestTransaction, 2), f) : f \in {9999, 10000, 20000, 24999, 25000}}
    \cup {Bundle(Repeat(TestTransaction, 11), f) : f \in {54999, 55000, 70999, 71000}}
    \cup {Bundle(Repeat(TestTransaction, n), 600000) : n \in {50, 51, 101}}
    \cup {Bundle(<<ArbitrageTransaction>>, f) : f \in {20000, 24999, 25000}}
    \cup {Bundle(<<WithPriority(1000000001)>>, 2000000)}

OneFeed == OracleTransaction(<<PriceUpdateInstruction(1)>>)
TwoFeeds == OracleTransaction(<<PriceUpdateInstruction(1), PriceFeedsInstruction(2)>>)
SixPoints == OracleTransaction(Repeat(PriceUpdateInstruction(1), 6))

\* Bundles with price-update instructions.
OracleBundles ==
    {Bundle(<<OneFeed>>, f) : f \in {12499, 12500, 14999, 15000, 20000}}
    \cup {Bundle(<<TwoFeeds>>, f) : f \in {24999, 25000}}
    \cup {Bundle(<<OneFeed, TestTransaction>>, f) : f \in {19999, 20000, 35000}}
    \cup {Bundle(<<SixPoints>>, f) : f \in {66999, 67000}}
    \cup {Bundle(<<OracleTransaction(<<i>>)>>, 15000) :
            i \in {Instruction(<<>>, UPDATE_PRICE), Instruction(<<3>>, UPDATE_PRICE),
                   Instruction(<<1>>, <<1, 0, 0, 0>>)}}

\* Bundles around the transaction limit and the minimum fee of the
\* compliance step, and around the ceiling of the risk-limit step.
InstitutionalBundles ==
    {Bundle(Repeat(TestTransaction, n), f) :
        n \in {1, 49, 50, 51, 60}, f \in {19999, 20000, 600000}}
    \cup {Bundle(<<WithPriority(p)>>, 2000000) : p \in {1000000000, 1000000001}}

\* Priority fees over the whole u64 range: around the ceiling of the risk
\* step (notional 10^12 at 10^9), around 2^64 / 1000, 2^63 and u64::MAX.
U64PriorityFees ==
    {BigOf(0), BigOf(5000), BigOf(1000000000), BigOf(1000000001),
     Decimal(<<18446744, 73709551>>), Decimal(<<18446744, 73709552>>),
     BigShl(<<1>>, 63), U64_MAX}

\* A test transaction whose priority_fee and compute_limit are limb
\* sequences.
U64Transaction(priority_fee, compute_limit) ==
    Transaction(<<TransferInstruction>>, priority_fee, compute_limit)

U64Bundles ==
    {Bundle(<<U64Transaction(p, BigOf(200000))>>, 2000000) : p \in U64PriorityFees}
    \cup {Bundle(<<U64Transaction(p, BigOf(200000)), U64Transaction(q, BigOf(200000))>>,
                 2000000) :
            p \in U64PriorityFees, q \in U64PriorityFees}

\* Bundles of two transactions whose priority fees and compute limits
\* range up to u64::MAX and u32::MAX.
U32_MAX == Decimal(<<4, 294967295>>)

FeeU64Bundles ==
    {Bundle(<<U64Transaction(BigShl(<<1>>, 63), BigOf(200000)), U64Transaction(q, c)>>,
            2000000) :
        q \in {BigOf(0), BigOf(5000), BigOf(10000000), BigShl(<<1>>, 63), U64_MAX},
        c \in {BigOf(1), BigOf(200000), BigOf(1400000), U32_MAX}}
    \cup {Bundle(<<U64Transaction(BigOf(5000), BigOf(200000)), U64Transaction(q, c)>>,
                 2000000) :
            q \in {BigOf(5000), BigOf(10000000)}, c \in {BigOf(200000), U32_MAX}}


WideBundles == MalformedBundles \cup ComputeBundles \cup FeeBundles \cup OracleBundles

\* The bundle two concurrent evaluations share: one test transaction
\* offered at its tier-1 fee, stamped 300 seconds (the largest accepted
\* drift) before the start-up clock value; and the bundle of a third thread.
SharedBundle ==
    [Bundle(<<TestTransaction>>, 5000) EXCEPT
        !.metadata.timestamp = StartTime - MAX_TIMESTAMP_DRIFT]
OtherBundle == Bundle(<<TestTransaction>>, 20000)

\* The bundles concurrent evaluations draw from.
NarrowBundles ==
    {Bundle(<<TestTransaction>>, 15000),
     Bundle(<<TestTransaction>>, 20000),
     Bundle(<<TestTransaction>>, 100)}

\* ------------------------------------------------------------------------
\* State.
VARIABLES
    now,            \* SystemTime::now(), unix seconds
    plugin_state,   \* PLUGIN_STATE: Mutex<PluginState>
    pyth_client,    \* PYTH_CLIENT: RwLock<PythClient>
    client_lock,    \* evaluation holding PYTH_CLIENT's write lock, 0 = free
    th,             \* per evaluation: position in the entry point and locals
    decisions,      \* history: bundle evaluations that have returned a code
    accepted_fees,  \* history: sum of plugin_fees over the SUCCESS returns
    state_replaced, \* history: set_plugin_state has been called
    fee_query,      \* argument of the last fee-estimate call
    fee_estimate,   \* value it returned, -1 before the first call
    fee_log,        \* history: the last two fee-estimate calls, newest last
    overflow_checks,\* the build panics on integer overflow instead of wrapping
    risk_call,      \* argument and result of the last apply_risk_limits call
    score_log,      \* a pair of calculate_price_confidence_score calls
    cache_call,     \* history: the OracleCache calls made on the client's cache
    snapshot,       \* what the last get_plugin_state call copied out
    poisoned,       \* a thread panicked while holding the PLUGIN_STATE lock
    state_lock      \* evaluation inside a PLUGIN_STATE critical section, 0 = free

vars == <<now, plugin_state, pyth_client, client_lock, th, decisions,
          accepted_fees, state_replaced, fee_query, fee_estimate, fee_log,
          overflow_checks, risk_call, score_log, cache_call, snapshot,
          poisoned, state_lock>>

NullBundle == Bundle(<<>>, 0)

\* An evaluation that has not been started.  required_fee, last_lookup,
\* injected, client_consulted, size_checked, bp_delta and fee_delta are
\* history fields: the fee the evaluation compared plugin_fees with, what
\* the cache held at its latest Step-3 price lookup, the number of lookups
\* of its injection step, whether it touched PYTH_CLIENT, whether it ran
\* the max_bundle_size check, what it added to the counters, and the
\* configuration fields it has read from PLUGIN_STATE with their values.
\* locked_at is the position at which it took the PLUGIN_STATE lock it
\* holds.
IdleEvaluation ==
    [bundle |-> NullBundle, price |-> <<>>, entry |-> "none",
     required_fee |-> -1, pc |-> "idle", bundle_is_null |-> TRUE,
     result |-> NO_RESULT, idx |-> 0, last_lookup |-> <<>>,
     injected |-> 0, client_consulted |-> FALSE, size_checked |-> FALSE,
     bp_delta |-> 0, fee_delta |-> 0, config_read |-> {},
     locked_at |-> "none"]

TypeOK ==
    /\ now \in StartTime..(StartTime + MaxClockTicks)
    /\ client_lock \in {0} \cup Evaluations
    /\ state_replaced \in BOOLEAN
    /\ decisions \in Nat
    /\ \A t \in Evaluations :
          th[t].pc \in {"idle", "ob_validate", "fetch", "fetching", "resolve",
                        "score", "oracle_fee", "inject", "oracle_commit",
                        "pb_validate", "pb_size", "pb_fee", "pb_commit",
                        "institutional", "metrics", "done"}

InitShared ==
    /\ now = StartTime
    /\ client_lock = 0
    /\ th = [t \in Evaluations |-> IdleEvaluation]
    /\ decisions = 0
    /\ accepted_fees = 0
    /\ state_replaced = FALSE
    /\ overflow_checks = FALSE
    /\ risk_call = <<>>
    /\ score_log = <<>>
    /\ cache_call = <<>>
    /\ snapshot = <<>>
    /\ poisoned = FALSE
    /\ state_lock = 0

Init ==
    /\ InitShared
    /\ plugin_state = DefaultPluginState
    /\ pyth_client = NewPythClient
    /\ fee_query = NullBundle
    /\ fee_estimate = -1
    /\ fee_log = <<>>

Points(t) == extract_price_injection_points(th[t].bundle)

\* Calls made so far: those that have returned and those in progress.
Started ==
    decisions + Cardinality({t \in Evaluations : th[t].pc \notin {"idle", "done"}})

\* Step 1 repeating the fee check in place instead of calling
\* process_bundle.
oracle_path_inlined(injection_points) ==
    IF injection_points = <<>> THEN "pb_fee" ELSE "fetch"

\* process_oracle_enabled_bundle Step 1: a bundle without injection
\* points is handed to process_bundle, any other goes on to Step 2.
oracle_path(injection_points) ==
    IF injection_points = <<>> THEN "pb_validate" ELSE "fetch"

\* fees.rs calculate_bundle_fee "Get configuration": min_fee_lamports and
\* fee_percentage of the locked state, or (5000, 0.001) when PLUGIN_STATE
\* is poisoned.
FeeConfig ==
    IF poisoned
    THEN [fee_percentage |-> F32_0_001, min_fee_lamports |-> 5000]
    ELSE [fee_percentage |-> plugin_state.config.fee_percentage,
          min_fee_lamports |-> plugin_state.config.min_fee_lamports]

\* Evaluation t reads fields of state.config under the lock (nothing is
\* read when the lock is poisoned) and goes on as in next_th.
ConfigRead(t, fields, next_th) ==
    IF poisoned THEN next_th
    ELSE [next_th EXCEPT
             ![t].config_read = @ \cup {<<f, plugin_state.config[f]>> : f \in fields}]

\* The inner pipeline returns code r to the exported entry point, which
\* goes on to update_processing_metrics.
Returns(t, r) == [th EXCEPT ![t].pc = "metrics", ![t].result = r]

\* "Update state metrics": bundles_processed += 1; total_fees_collected +=
\* plugin_fees, under the PLUGIN_STATE lock.
CountBundle(state, bundle) ==
    [state EXCEPT !.bundles_processed = @ + 1,
                  !.total_fees_collected = @ + bundle.metadata.plugin_fees]

\* The section is skipped when the lock is poisoned (if let Ok(..)).
Counted(t, pc) ==
    IF poisoned THEN [th EXCEPT ![t].pc = pc]
    ELSE [th EXCEPT ![t].pc = pc,
                    ![t].bp_delta = @ + 1,
                    ![t].fee_delta = @ + th[t].bundle.metadata.plugin_fees]

\* The u64 counters are held as the signed integers with the same 64 bits
\* (u64::MAX is -1), so that + wraps as the counters do; an addition
\* overflows when it takes the counter from below zero to zero or above.
BundlesOverflow(state) ==
    state.bundles_processed < 0 /\ state.bundles_processed + 1 >= 0
FeesOverflow(state, bundle) ==
    /\ state.total_fees_collected < 0
    /\ state.total_fees_collected + bundle.metadata.plugin_fees >= 0

\* The counter update of evaluation t panics: an overflow in a build with
\* overflow checks.  The thread unwinds with the lock held, which poisons
\* PLUGIN_STATE.
Panics(t) ==
    /\ ~poisoned
    /\ overflow_checks
    /\ BundlesOverflow(plugin_state) \/ FeesOverflow(plugin_state, th[t].bundle)

\* The state after the counter update of evaluation t; a panic in the
\* second addition leaves the first one applied.
Count(t) ==
    IF poisoned THEN plugin_state
    ELSE IF overflow_checks /\ BundlesOverflow(plugin_state) THEN plugin_state
    ELSE IF overflow_checks /\ FeesOverflow(plugin_state, th[t].bundle)
    THEN [plugin_state EXCEPT !.bundles_processed = @ + 1]
    ELSE CountBundle(plugin_state, th[t].bundle)

\* Evaluation t after its counter update: on its way to pc with SUCCESS,
\* or unwound by the panic without a result code.
Committed(t, pc) ==
    IF Panics(t) THEN [th EXCEPT ![t].pc = "done", ![t].result = PANIC]
    ELSE [Counted(t, pc) EXCEPT ![t].result = SUCCESS]

\* ------------------------------------------------------------------------
\* lib.rs: process_bundle_forwarding / process_bundle_v2 / process_bundle_v3
\* up to the call of the pipeline; a null bundle returns at once.
Call(t, entry, is_null, bundle) ==
    /\ th[t].pc = "idle"
    /\ IF is_null
       THEN /\ th' = [th EXCEPT ![t].pc = "done", ![t].entry = entry,
                                ![t].result = ERROR_NULL_POINTER]
       ELSE /\ th' = [th EXCEPT ![t].pc = IF entry = "process_bundle_forwarding"
                                          THEN "pb_validate" ELSE "ob_validate",
                                ![t].entry = entry,
                                ![t].bundle_is_null = FALSE,
                                ![t].bundle = bundle]
    /\ UNCHANGED <<now, plugin_state, pyth_client, client_lock, decisions, accepted_fees,
                   state_replaced, fee_query, fee_estimate, fee_log, overflow_checks, cache_call,
                   snapshot, poisoned, state_lock,
                   risk_call, score_log>>

\* oracle_processing.rs process_oracle_bundle: validation, then Step 1 of
\* process_oracle_enabled_bundle.
OracleValidate(t) ==
    /\ th[t].pc = "ob_validate"
    /\ LET r == validate_bundle(th[t].bundle, now)
       IN  th' = IF r # SUCCESS THEN Returns(t, r)
                 ELSE [th EXCEPT ![t].pc = oracle_path(Points(t))]
    /\ UNCHANGED <<now, plugin_state, pyth_client, client_lock, decisions,
                   accepted_fees, state_replaced, fee_query, fee_estimate, fee_log, overflow_checks, cache_call,
                   snapshot, poisoned, state_lock,
                   risk_call, score_log>>

\* pyth_client.rs fetch_oracle_prices up to the network wait: takes the
\* write lock, and keeps it while fetch_all_prices is in flight.
FetchOraclePrices(t) ==
    /\ th[t].pc = "fetch"
    /\ client_lock = 0
    /\ IF ~should_refresh(pyth_client, now)
       THEN /\ th' = [th EXCEPT ![t].pc = "resolve", ![t].idx = 1,
                                ![t].client_consulted = TRUE]
            /\ client_lock' = 0
       ELSE IF ~pyth_client.http_client
       THEN /\ th' = [Returns(t, ERROR_ORACLE_NETWORK_FAILURE) EXCEPT
                         ![t].client_consulted = TRUE]
            /\ client_lock' = 0
       ELSE /\ th' = [th EXCEPT ![t].pc = "fetching", ![t].client_consulted = TRUE]
            /\ client_lock' = t
    /\ UNCHANGED <<now, plugin_state, pyth_client, decisions, accepted_fees,
                   state_replaced, fee_query, fee_estimate, fee_log, overflow_checks, cache_call,
                   snapshot, poisoned, state_lock,
                   risk_call, score_log>>

\* The updates of one round put into the cache in their order: the first
\* half of the round, then the second.  The test of Len(first), true of
\* every sequence, has the cache after the first half computed before the
\* second half is applied to it.
RECURSIVE ApplyUpdates(_, _)
ApplyUpdates(prices, updates) ==
    IF updates = <<>> THEN prices
    ELSE IF Len(updates) = 1
    THEN CachePut(prices, updates[1].id, updates[1].data)
    ELSE LET half == Len(updates) \div 2
             first == ApplyUpdates(prices, SubSeq(updates, 1, half))
         IN  IF Len(first) >= 0
             THEN ApplyUpdates(first, SubSeq(updates, half + 1, Len(updates)))
             ELSE first

\* fetch_all_prices completes: every fetched price is committed to the
\* cache, last_fetch_time is set and the write lock is released.
FetchComplete(t, updates) ==
    /\ th[t].pc = "fetching"
    /\ client_lock = t
    /\ pyth_client' =
          [pyth_client EXCEPT
              !.cache.prices = ApplyUpdates(@, updates),
              !.cache.last_update = IF updates = <<>> THEN @ ELSE now,
              !.last_fetch_time = now]
    /\ client_lock' = 0
    /\ th' = [th EXCEPT ![t].pc = "resolve", ![t].idx = 1]
    /\ UNCHANGED <<now, plugin_state, decisions, accepted_fees, state_replaced,
                   fee_query, fee_estimate, fee_log, overflow_checks, cache_call,
                   snapshot, poisoned, state_lock,
                   risk_call, score_log>>

\* What the cache holds for a feed when it is looked up.
LookupFact(client, price_id, current_time) ==
    LET i == CacheIndex(client.cache.prices, price_id)
    IN  [id |-> price_id,
         age |-> IF i = 0 THEN 0
                 ELSE current_time - client.cache.prices[i].data.publish_time,
         found |-> i # 0,
         max_age |-> client.config.max_price_age_seconds]

\* Step 3, first half: get_oracle_price for injection point idx.
ResolvePrice(t) ==
    /\ th[t].pc = "resolve"
    /\ client_lock = 0
    /\ LET id == Points(t)[th[t].idx].required_price_id
           r == get_oracle_price(pyth_client, id, now)
           logged == [th EXCEPT ![t].last_lookup =
                                   <<LookupFact(pyth_client, id, now)>>]
       IN  /\ pyth_client' = [pyth_client EXCEPT
                                 !.cache.prices = CacheTouch(@, id)]
           /\ th' = IF r.ok
                    THEN [logged EXCEPT ![t].pc = "score", ![t].price = <<r.data>>]
                    ELSE [logged EXCEPT ![t].pc = "metrics", ![t].result = r.code]
    /\ UNCHANGED <<now, plugin_state, client_lock, decisions, accepted_fees,
                   state_replaced, fee_query, fee_estimate, fee_log, overflow_checks, cache_call,
                   snapshot, poisoned, state_lock,
                   risk_call, score_log>>

\* Step 3, second half: the confidence score of the price just resolved.
ScorePrice(t) ==
    /\ th[t].pc = "score"
    /\ LET r == confidence_check(th[t].price[1], now)
       IN  th' = IF r # SUCCESS THEN Returns(t, r)
                 ELSE IF th[t].idx < Len(Points(t))
                 THEN [th EXCEPT ![t].pc = "resolve", ![t].idx = @ + 1,
                                 ![t].price = <<>>]
                 ELSE [th EXCEPT ![t].pc = "oracle_fee", ![t].price = <<>>]
    /\ UNCHANGED <<now, plugin_state, pyth_client, client_lock, decisions,
                   accepted_fees, state_replaced, fee_query, fee_estimate, fee_log, overflow_checks, cache_call,
                   snapshot, poisoned, state_lock,
                   risk_call, score_log>>

\* Step 4: base fee (configuration read under the PLUGIN_STATE lock) plus
\* the oracle fee, compared with plugin_fees.
OracleFee(t) ==
    /\ th[t].pc = "oracle_fee"
    /\ LET base_fee == calculate_bundle_fee(th[t].bundle,
                                           FeeConfig.min_fee_lamports,
                                           FeeConfig.fee_percentage)
           oracle_fee == calculate_oracle_processing_fee(Points(t))
           total_required_fee == base_fee + oracle_fee
           r == fee_check(th[t].bundle, total_required_fee)
       IN  th' = ConfigRead(t, {"min_fee_lamports", "fee_percentage"},
                     IF r # SUCCESS
                     THEN [Returns(t, r) EXCEPT ![t].required_fee = total_required_fee]
                     ELSE [th EXCEPT ![t].pc = "inject", ![t].idx = 1,
                                     ![t].required_fee = total_required_fee])
    /\ UNCHANGED <<now, plugin_state, pyth_client, client_lock, decisions,
                   accepted_fees, state_replaced, fee_query, fee_estimate, fee_log, overflow_checks, cache_call,
                   snapshot, poisoned, state_lock,
                   risk_call, score_log>>

\* Step 5: inject_oracle_prices looks injection point idx up again; a low
\* score only warns.  After the last point Step 6 (advisory only) follows.
InjectPrice(t) ==
    /\ th[t].pc = "inject"
    /\ client_lock = 0
    /\ LET id == Points(t)[th[t].idx].required_price_id
           r == get_oracle_price(pyth_client, id, now)
       IN  /\ pyth_client' = [pyth_client EXCEPT
                                 !.cache.prices = CacheTouch(@, id)]
           /\ th' = IF ~r.ok
                    THEN [Returns(t, r.code) EXCEPT ![t].injected = @ + 1]
                    ELSE IF th[t].idx < Len(Points(t))
                    THEN [th EXCEPT ![t].idx = @ + 1, ![t].injected = @ + 1]
                    ELSE [th EXCEPT ![t].pc = "oracle_commit", ![t].injected = @ + 1]
    /\ UNCHANGED <<now, plugin_state, client_lock, decisions, accepted_fees,
                   state_replaced, fee_query, fee_estimate, fee_log, overflow_checks, cache_call,
                   snapshot, poisoned, state_lock,
                   risk_call, score_log>>

\* Where process_oracle_bundle / process_bundle return SUCCESS to.
AfterLowerTiers(t) ==
    IF th[t].entry = "process_bundle_v3" THEN "institutional" ELSE "metrics"

\* Step 7: the oracle pipeline counts the bundle and returns SUCCESS.
OracleCommit(t) ==
    /\ th[t].pc = "oracle_commit"
    /\ plugin_state' = Count(t)
    /\ th' = Committed(t, AfterLowerTiers(t))
    /\ poisoned' = (poisoned \/ Panics(t))
    /\ UNCHANGED <<now, pyth_client, client_lock, decisions, accepted_fees,
                   state_replaced, fee_query, fee_estimate, fee_log, overflow_checks, cache_call,
                   snapshot, state_lock,
                   risk_call, score_log>>

\* processing.rs process_bundle: validation.
ProcessValidate(t) ==
    /\ th[t].pc = "pb_validate"
    /\ LET r == validate_bundle(th[t].bundle, now)
       IN  th' = IF r # SUCCESS THEN Returns(t, r)
                 ELSE [th EXCEPT ![t].pc = "pb_size"]
    /\ UNCHANGED <<now, plugin_state, pyth_client, client_lock, decisions,
                   accepted_fees, state_replaced, fee_query, fee_estimate, fee_log, overflow_checks, cache_call,
                   snapshot, poisoned, state_lock,
                   risk_call, score_log>>

\* process_bundle: the max_bundle_size check under the PLUGIN_STATE lock,
\* skipped when the lock is poisoned.
ProcessSize(t) ==
    /\ th[t].pc = "pb_size"
    /\ LET r == IF poisoned THEN SUCCESS
                ELSE bundle_size_check(th[t].bundle, plugin_state.config)
       IN  th' = ConfigRead(t, {"max_bundle_size"},
                     IF r # SUCCESS THEN Returns(t, r)
                     ELSE [th EXCEPT ![t].pc = "pb_fee",
                                     ![t].size_checked = ~poisoned])
    /\ UNCHANGED <<now, plugin_state, pyth_client, client_lock, decisions,
                   accepted_fees, state_replaced, fee_query, fee_estimate, fee_log, overflow_checks, cache_call,
                   snapshot, poisoned, state_lock,
                   risk_call, score_log>>

\* ProcessFee with a required fee that grows with the number of bundles
\* processed so far (a fee read from the counters the evaluations update).
ProcessFeeSurge(t) ==
    /\ th[t].pc = "pb_fee"
    /\ LET required_fee == calculate_bundle_fee(th[t].bundle,
                                               FeeConfig.min_fee_lamports,
                                               FeeConfig.fee_percentage)
                           + plugin_state.config.min_fee_lamports
                             * plugin_state.bundles_processed
           r == fee_check(th[t].bundle, required_fee)
       IN  th' = ConfigRead(t, {"min_fee_lamports", "fee_percentage"},
                     IF r # SUCCESS
                     THEN [Returns(t, r) EXCEPT ![t].required_fee = required_fee]
                     ELSE [th EXCEPT ![t].pc = "pb_commit",
                                     ![t].required_fee = required_fee])
    /\ UNCHANGED <<now, plugin_state, pyth_client, client_lock, decisions,
                   accepted_fees, state_replaced, fee_query, fee_estimate,
                   fee_log, overflow_checks, cache_call,
                   snapshot, poisoned, state_lock, risk_call, score_log>>

\* process_bundle: calculate_bundle_fee (its own lock acquisition) and the
\* fee comparison; apply_bundle_optimizations only logs.
ProcessFee(t) ==
    /\ th[t].pc = "pb_fee"
    /\ LET required_fee == calculate_bundle_fee(th[t].bundle,
                                               FeeConfig.min_fee_lamports,
                                               FeeConfig.fee_percentage)
           r == fee_check(th[t].bundle, required_fee)
       IN  th' = ConfigRead(t, {"min_fee_lamports", "fee_percentage"},
                     IF r # SUCCESS
                     THEN [Returns(t, r) EXCEPT ![t].required_fee = required_fee]
                     ELSE [th EXCEPT ![t].pc = "pb_commit",
                                     ![t].required_fee = required_fee])
    /\ UNCHANGED <<now, plugin_state, pyth_client, client_lock, decisions,
                   accepted_fees, state_replaced, fee_query, fee_estimate, fee_log, overflow_checks, cache_call,
                   snapshot, poisoned, state_lock,
                   risk_call, score_log>>

\* process_bundle: "Update state metrics" and return SUCCESS.
ProcessCommit(t) ==
    /\ th[t].pc = "pb_commit"
    /\ plugin_state' = Count(t)
    /\ th' = Committed(t, AfterLowerTiers(t))
    /\ poisoned' = (poisoned \/ Panics(t))
    /\ UNCHANGED <<now, pyth_client, client_lock, decisions, accepted_fees,
                   state_replaced, fee_query, fee_estimate, fee_log, overflow_checks, cache_call,
                   snapshot, state_lock,
                   risk_call, score_log>>

\* institutional.rs process_institutional_bundle after the lower tiers
\* returned SUCCESS: sequencer, arbitrage detection (result only logged),
\* then its own counter update.
Institutional(t) ==
    /\ th[t].pc = "institutional"
    /\ LET r == sequence_institutional_bundle(DefaultSequencer, th[t].bundle)
       IN  IF r # SUCCESS
           THEN /\ th' = Returns(t, r)
                /\ plugin_state' = plugin_state
                /\ poisoned' = poisoned
           ELSE /\ th' = Committed(t, "metrics")
                /\ plugin_state' = Count(t)
                /\ poisoned' = (poisoned \/ Panics(t))
    /\ UNCHANGED <<now, pyth_client, client_lock, decisions, accepted_fees,
                   state_replaced, fee_query, fee_estimate, fee_log, overflow_checks, cache_call,
                   snapshot, state_lock,
                   risk_call, score_log>>

\* alpha * sample + (1 - alpha) * avg with alpha = 0.1, truncated to u64;
\* exact in f64 for the small values of the model.
MovingAverage(avg, sample) == (sample + 9 * avg) \div 10

\* metrics.rs update_processing_metrics
update_processing_metrics(state, processing_time_us, success, current_time) ==
    IF ~state.config.enable_metrics THEN state
    ELSE [state EXCEPT
             !.average_processing_time_us = MovingAverage(@, processing_time_us),
             !.last_error = IF success THEN @
                            ELSE [timestamp |-> current_time, is_some |-> TRUE]]

\* The tail of every exported entry point: metrics, then the code is
\* returned to the host.
UpdateMetrics(t, sample) ==
    /\ th[t].pc = "metrics"
    /\ plugin_state' = IF poisoned THEN plugin_state
                       ELSE update_processing_metrics(plugin_state, sample,
                                                      th[t].result = SUCCESS, now)
    /\ th' = ConfigRead(t, {"enable_metrics"}, [th EXCEPT ![t].pc = "done"])
    /\ decisions' = decisions + 1
    /\ accepted_fees' = IF th[t].result = SUCCESS
                        THEN accepted_fees + th[t].bundle.metadata.plugin_fees
                        ELSE accepted_fees
    /\ UNCHANGED <<now, pyth_client, client_lock, state_replaced, fee_query,
                   fee_estimate, fee_log, overflow_checks, cache_call,
                   snapshot, poisoned, state_lock,
                   risk_call, score_log>>

\* ------------------------------------------------------------------------
\* The other operations.

\* lib.rs plugin_init with a configuration: state.config = config, or
\* ERROR_INVALID_STATE when the lock is poisoned.
PluginInit(config) ==
    /\ plugin_state' = IF poisoned THEN plugin_state
                       ELSE [plugin_state EXCEPT !.config = config]
    /\ UNCHANGED <<now, pyth_client, client_lock, th, decisions, accepted_fees,
                   state_replaced, fee_query, fee_estimate, fee_log, overflow_checks, cache_call,
                   snapshot, poisoned, state_lock,
                   risk_call, score_log>>

\* lib.rs set_plugin_state: *state = new_state, or ERROR_INVALID_STATE
\* when the lock is poisoned.
SetPluginState(new_state) ==
    /\ plugin_state' = IF poisoned THEN plugin_state ELSE new_state
    /\ state_replaced' = (state_replaced \/ ~poisoned)
    /\ UNCHANGED <<now, pyth_client, client_lock, th, decisions, accepted_fees,
                   fee_query, fee_estimate, fee_log, overflow_checks, cache_call,
                   snapshot, poisoned, state_lock,
                   risk_call, score_log>>

\* pyth_client.rs initialize_pyth_client
InitializePythClient(config) ==
    /\ client_lock = 0
    /\ pyth_client' = [pyth_client EXCEPT !.config = config, !.http_client = TRUE]
    /\ UNCHANGED <<now, plugin_state, client_lock, th, decisions, accepted_fees,
                   state_replaced, fee_query, fee_estimate, fee_log, overflow_checks, cache_call,
                   snapshot, poisoned, state_lock,
                   risk_call, score_log>>

\* The system clock advances by one second.
Tick ==
    /\ now < StartTime + MaxClockTicks
    /\ now' = now + 1
    /\ UNCHANGED <<plugin_state, pyth_client, client_lock, th, decisions,
                   accepted_fees, state_replaced, fee_query, fee_estimate, fee_log, overflow_checks, cache_call,
                   snapshot, poisoned, state_lock,
                   risk_call, score_log>>

\* The host thread of a returned call becomes free for the next call.
Return(t) ==
    /\ th[t].pc = "done"
    /\ th' = [th EXCEPT ![t] = IdleEvaluation]
    /\ UNCHANGED <<now, plugin_state, pyth_client, client_lock, decisions,
                   accepted_fees, state_replaced, fee_query, fee_estimate, fee_log, overflow_checks, cache_call,
                   snapshot, poisoned, state_lock,
                   risk_call, score_log>>

\* The record of a fee-estimate call appended to the history, of which the
\* last two calls are kept.
Logged(entry, bundle, estimate) ==
    LET call == [entry |-> entry, config |-> plugin_state.config,
                 estimate |-> estimate, query |-> bundle]
    IN  IF fee_log = <<>> THEN <<call>> ELSE <<fee_log[Len(fee_log)], call>>

\* A fee-estimate entry point returning estimate for bundle.
Estimate(entry, bundle, estimate) ==
    /\ fee_query' = bundle
    /\ fee_estimate' = estimate
    /\ fee_log' = Logged(entry, bundle, estimate)
    /\ UNCHANGED <<now, plugin_state, pyth_client, client_lock, th, decisions,
                   accepted_fees, state_replaced, overflow_checks, cache_call,
                   snapshot, poisoned, state_lock, risk_call,
                   score_log>>

\* lib.rs estimate_forwarding_fee: 0 for a null bundle, else
\* calculate_bundle_fee of the bundle, which is not validated.
EstimateForwardingFee(is_null, bundle) ==
    Estimate("estimate_forwarding_fee", bundle,
             IF is_null THEN 0
             ELSE calculate_bundle_fee(bundle,
                      FeeConfig.min_fee_lamports,
                      FeeConfig.fee_percentage))

\* oracle_processing.rs get_oracle_fee_estimate: 0 for a null bundle, else
\* base_fee + oracle_fee of the bundle, which is not validated.
GetOracleFeeEstimate(is_null, bundle) ==
    Estimate("get_oracle_fee_estimate", bundle,
             IF is_null THEN 0
             ELSE LET injection_points == extract_price_injection_points(bundle)
                      base_fee == calculate_bundle_fee(bundle,
                                      FeeConfig.min_fee_lamports,
                                      FeeConfig.fee_percentage)
                      oracle_fee == calculate_oracle_processing_fee(injection_points)
                  IN  base_fee + oracle_fee)

\* lib.rs estimate_institutional_fee: 0 for a null bundle, else
\* calculate_institutional_fee over the opportunities the detector finds.
EstimateInstitutionalFee(is_null, bundle) ==
    Estimate("estimate_institutional_fee", bundle,
             IF is_null THEN 0
             ELSE calculate_institutional_fee(bundle,
                      detect_arbitrage_opportunities(bundle)))

\* estimate_forwarding_fee on a bundle whose integer fields range over
\* their whole width.
EstimateForwardingFeeU64(bundle) ==
    Estimate("estimate_forwarding_fee", bundle,
             calculate_bundle_fee_u64(bundle,
                 FeeConfig.min_fee_lamports,
                 FeeConfig.fee_percentage, overflow_checks))

\* InstitutionalSequencer::apply_risk_limits called on a bundle.
ApplyRiskLimits(bundle) ==
    /\ risk_call' = [bundle |-> bundle,
                     result |-> apply_risk_limits_u64(bundle, overflow_checks)]
    /\ UNCHANGED <<now, plugin_state, pyth_client, client_lock, th, decisions,
                   accepted_fees, state_replaced, fee_query, fee_estimate,
                   fee_log, overflow_checks, cache_call,
                   snapshot, poisoned, state_lock, score_log>>

\* calculate_price_confidence_score called on a price: the history holds
\* the pair of calls that the properties compare.
CalculatePriceConfidenceScore(price_data, current_time) ==
    LET call == [current_time |-> current_time, price_data |-> price_data,
                 score |-> calculate_price_confidence_score_i64(
                               price_data, current_time, overflow_checks)]
    IN  /\ Len(score_log) < 2
        /\ score_log' = Append(score_log, call)
        /\ UNCHANGED <<now, plugin_state, pyth_client, client_lock, th, decisions,
                       accepted_fees, state_replaced, fee_query, fee_estimate,
                       fee_log, overflow_checks, cache_call,
                   snapshot, poisoned, state_lock, risk_call>>

\* One step of evaluation t in the tier-1 pipeline, in the oracle pipeline
\* of a bundle without injection points, or in the institutional tier.
BaseStep(t) ==
    \/ OracleValidate(t)
    \/ ProcessValidate(t)
    \/ ProcessSize(t)
    \/ ProcessFee(t)
    \/ ProcessCommit(t)
    \/ Institutional(t)
    \/ \E sample \in Samples : UpdateMetrics(t, sample)

\* One step of evaluation t in the oracle pipeline of a bundle with
\* injection points, when no fetch is due or possible.
CachedOracleStep(t) ==
    \/ FetchOraclePrices(t)
    \/ ResolvePrice(t)
    \/ ScorePrice(t)
    \/ OracleFee(t)
    \/ InjectPrice(t)
    \/ OracleCommit(t)

\* Concurrent evaluations on two host threads of bundles without
\* injection points, with plugin_init and set_plugin_state calls.
Next ==
    \/ \E t \in Threads, entry \in Entries, bundle \in NarrowBundles :
          Started < MaxCalls /\ Call(t, entry, FALSE, bundle)
    \/ \E t \in Threads, entry \in Entries :
          Started < MaxCalls /\ Call(t, entry, TRUE, NullBundle)
    \/ \E t \in Threads : BaseStep(t)
    \/ \E t \in Threads : Return(t)
    \/ \E new_state \in RestoredStates : SetPluginState(new_state)
    \/ \E config \in Configs : PluginInit(config)

Spec == Init /\ [][Next]_vars

\* One evaluation of any bundle, while the clock advances, the
\* configuration is replaced and prices are fetched.
NextOne ==
    \/ \E entry \in Entries, bundle \in WideBundles : Call(1, entry, FALSE, bundle)
    \/ \E entry \in Entries : Call(1, entry, TRUE, NullBundle)
    \/ BaseStep(1)
    \/ CachedOracleStep(1)
    \/ \E updates \in FetchUpdates(now) : FetchComplete(1, updates)
    \/ \E config \in Configs : PluginInit(config)
    \/ \E config \in OracleConfigs : InitializePythClient(config)
    \/ Tick

SpecOne == Init /\ [][NextOne]_vars

\* The same bundle through the three entry points, one after the other,
\* under a configuration, a clock and a cache content that do not change.
EntryOf(t) ==
    IF t = 1 THEN "process_bundle_forwarding"
    ELSE IF t = 2 THEN "process_bundle_v2" ELSE "process_bundle_v3"

\* An initialised client right after a fetch round that committed updates.
FetchedClient(config, updates) ==
    [last_fetch_time |-> StartTime,
     config |-> config,
     cache |-> [prices |-> ApplyUpdates(<<>>, updates),
                last_update |-> IF updates = <<>> THEN UNIX_EPOCH ELSE StartTime],
     http_client |-> TRUE]

TierClients ==
    {NewPythClient}
    \cup {FetchedClient(config, updates) :
            config \in OracleConfigs, updates \in FetchUpdates(StartTime)}

TierBundles == FeeBundles \cup OracleBundles

InitTiers ==
    /\ InitShared
    /\ \E config \in Configs :
          plugin_state = [DefaultPluginState EXCEPT !.config = config]
    /\ pyth_client \in TierClients
    /\ fee_query = NullBundle
    /\ fee_estimate = -1
    /\ fee_log = <<>>

CallTier(t, bundle) ==
    /\ \A u \in Evaluations \ {t} :
          /\ th[u].pc \in {"idle", "done"}
          /\ th[u].pc = "done" => th[u].bundle = bundle
    /\ Call(t, EntryOf(t), FALSE, bundle)

NextTiers ==
    \/ \E t \in Evaluations, bundle \in TierBundles : CallTier(t, bundle)
    \/ \E t \in Evaluations : BaseStep(t)
    \/ \E t \in Evaluations : CachedOracleStep(t)

SpecTiers == InitTiers /\ [][NextTiers]_vars

\* Fee estimates of any bundle under either configuration.
InitFee ==
    /\ InitShared
    /\ \E config \in Configs :
          plugin_state = [DefaultPluginState EXCEPT !.config = config]
    /\ pyth_client = NewPythClient
    /\ fee_query = NullBundle
    /\ fee_estimate = -1
    /\ fee_log = <<>>

NextFee ==
    \/ \E bundle \in WideBundles : EstimateForwardingFee(FALSE, bundle)
    \/ EstimateForwardingFee(TRUE, NullBundle)

SpecFee == InitFee /\ [][NextFee]_vars

\* The same bundle through the three entry points as above, and then the
\* three fee estimates of that bundle.
AllDone == \A t \in Evaluations : th[t].pc = "done"

NextQuote ==
    \/ NextTiers
    \/ AllDone /\ EstimateForwardingFee(FALSE, th[1].bundle)
    \/ AllDone /\ GetOracleFeeEstimate(FALSE, th[1].bundle)
    \/ AllDone /\ EstimateInstitutionalFee(FALSE, th[1].bundle)
    \/ AllDone /\ GetOracleFeeEstimate(TRUE, NullBundle)
    \/ AllDone /\ EstimateInstitutionalFee(TRUE, NullBundle)

SpecQuote == InitTiers /\ [][NextQuote]_vars

\* One process_bundle_v3 evaluation of a bundle without injection points
\* under a configuration that does not change.
InitInstitutional ==
    /\ InitShared
    /\ \E config \in {DefaultConfig, LowFeeConfig} :
          plugin_state = [DefaultPluginState EXCEPT !.config = config]
    /\ pyth_client = NewPythClient
    /\ fee_query = NullBundle
    /\ fee_estimate = -1
    /\ fee_log = <<>>

NextInstitutional ==
    \/ \E bundle \in InstitutionalBundles :
          Call(3, "process_bundle_v3", FALSE, bundle)
    \/ BaseStep(3)

SpecInstitutional == InitInstitutional /\ [][NextInstitutional]_vars

\* The state after plugin_init in either build: with overflow checks (the
\* dev profile) or with wrapping arithmetic (the release profile).
InitBuild ==
    /\ now = StartTime
    /\ client_lock = 0
    /\ th = [t \in Evaluations |-> IdleEvaluation]
    /\ decisions = 0
    /\ accepted_fees = 0
    /\ state_replaced = FALSE
    /\ overflow_checks \in BOOLEAN
    /\ risk_call = <<>>
    /\ score_log = <<>>
    /\ cache_call = <<>>
    /\ snapshot = <<>>
    /\ poisoned = FALSE
    /\ state_lock = 0
    /\ \E config \in Configs :
          plugin_state = [DefaultPluginState EXCEPT !.config = config]
    /\ pyth_client = NewPythClient
    /\ fee_query = NullBundle
    /\ fee_estimate = -1
    /\ fee_log = <<>>

\* The risk-limit step on bundles with priority fees over the u64 range.
NextRisk == \E bundle \in U64Bundles : ApplyRiskLimits(bundle)

SpecRisk == InitBuild /\ [][NextRisk]_vars

\* Three host threads, one call each, under a configuration that does not
\* change: threads 1 and 2 evaluate the shared bundle, thread 3 another
\* one, while the fee of the shared bundle is estimated and the clock
\* advances.
InitRace ==
    /\ InitShared
    /\ \E config \in Configs :
          plugin_state = [DefaultPluginState EXCEPT !.config = config]
    /\ pyth_client = NewPythClient
    /\ fee_query = NullBundle
    /\ fee_estimate = -1
    /\ fee_log = <<>>

NextRace ==
    \/ \E t \in Threads, entry \in Entries : Call(t, entry, FALSE, SharedBundle)
    \/ \E entry \in Entries : Call(3, entry, FALSE, OtherBundle)
    \/ \E t \in Evaluations : BaseStep(t)
    \/ EstimateForwardingFee(FALSE, SharedBundle)
    \/ Tick

SpecRace == InitRace /\ [][NextRace]_vars

\* Prices and confidence intervals over the range of i64 and u64: the
\* test's price (ratio 0.05 %), ratios at and between the thresholds, a
\* negative price, zero prices, and the extremes.
ScoredPrices ==
    {<<I64Of(100000000), BigOf(50000)>>,
     <<I64Of(1000), BigOf(1)>>,
     <<I64Of(1000), BigOf(5)>>,
     <<I64Of(100), BigOf(10)>>,
     <<I64Of(-1000), BigOf(4)>>,
     <<I64Of(0), BigOf(0)>>,
     <<I64Of(0), U64_MAX>>,
     <<I64_MIN, BigShl(<<1>>, 63)>>,
     <<I64_MAX, U64_MAX>>,
     <<[mag |-> Decimal(<<9, 100000000, 513>>), neg |-> FALSE],
       Decimal(<<9100000, 1>>)>>}

\* Publication times: ages in each band of the score, and i64::MIN.
ScoredAges == {5, 29, 59, 300}

PublishTimes == {I64Of(StartTime - age) : age \in ScoredAges} \cup {I64_MIN}

\* Direct calls of calculate_price_confidence_score in either build.
InitScore == InitBuild /\ plugin_state.config = DefaultConfig

NextScore ==
    \E pc \in ScoredPrices, publish_time \in PublishTimes :
        CalculatePriceConfidenceScore(
            [publish_time |-> publish_time, price |-> pc[1], conf |-> pc[2]],
            I64Of(StartTime))

SpecScore == InitScore /\ [][NextScore]_vars

\* Fee estimates of bundles with integer fields over their whole width.
NextFeeU64 == \E bundle \in FeeU64Bundles : EstimateForwardingFeeU64(bundle)

SpecFeeU64 == InitBuild /\ [][NextFeeU64]_vars

\* ------------------------------------------------------------------------
\* oracle.rs OracleCache, called directly.

\* Calls of get_price / update_price per behaviour.
MaxCacheCalls == 3

\* The feed ids the calls use: the two oldest entries of the preloaded
\* cache and two feeds it does not hold.
CachedFeeds(n) == 1..n
ProbedFeeds == {1, 2, ORACLE_CACHE_CAPACITY + 1, ORACLE_CACHE_CAPACITY + 2}

\* The cache after update_price of feeds 1..n in that order.
PreloadedPrices(n) ==
    [i \in 1..n |-> [data |-> FetchedPrice(StartTime, 30), id |-> n + 1 - i]]

\* The history of the cache calls: the last call (op, id, what get_price
\* returned, the ids the call removed), for every feed the logical time of
\* its last use (0 = never) and the price it was last given, the feeds
\* given a price and not evicted since, and what was the case right before
\* the last call: the cache was full, it held the feed, and the feeds used
\* least and most recently among those it held.
CacheHistory(n) ==
    [id |-> 0, result |-> <<>>, op |-> "none", evicted |-> {},
     was_full |-> FALSE, was_cached |-> FALSE, was_held |-> FALSE,
     lru |-> 0, mru |-> 0, held |-> CachedFeeds(n),
     calls |-> 0, clock |-> n,
     used |-> [i \in CachedFeeds(n) \cup ProbedFeeds |->
                  IF i \in CachedFeeds(n) THEN i ELSE 0],
     given |-> [i \in CachedFeeds(n) \cup ProbedFeeds |->
                  IF i \in CachedFeeds(n)
                  THEN <<FetchedPrice(StartTime, 30)>> ELSE <<>>]]

CacheIds(prices) == {prices[i].id : i \in 1..Len(prices)}

\* Among ids, the feed whose last use is the oldest, and the one whose
\* last use is the latest of all (at time clock), 0 if it is not among them.
LeastRecentlyUsed(used, ids) ==
    IF ids = {} THEN 0
    ELSE CHOOSE i \in ids : \A j \in ids : used[i] <= used[j]
MostRecentlyUsed(used, ids, clock) ==
    IF \E i \in ids : used[i] = clock
    THEN CHOOSE i \in ids : used[i] = clock
    ELSE 0

CacheLogged(op, price_id, result, before, after, counts_as_use) ==
    [cache_call EXCEPT
        !.id = price_id, !.result = result, !.op = op,
        !.evicted = CacheIds(before) \ CacheIds(after),
        !.was_full = Len(before) >= ORACLE_CACHE_CAPACITY,
        !.was_cached = price_id \in CacheIds(before),
        !.was_held = price_id \in cache_call.held,
        !.held = (@ \ (CacheIds(before) \ CacheIds(after)))
                 \cup (IF op = "update_price" THEN {price_id} ELSE {}),
        !.lru = LeastRecentlyUsed(cache_call.used, CacheIds(before)),
        !.mru = MostRecentlyUsed(cache_call.used, CacheIds(before), cache_call.clock),
        !.calls = @ + 1,
        !.clock = IF counts_as_use THEN @ + 1 ELSE @,
        !.used = IF counts_as_use THEN [@ EXCEPT ![price_id] = cache_call.clock + 1]
                 ELSE @]

\* OracleCache::get_price: self.prices.get(price_id)
GetPrice(price_id) ==
    LET before == pyth_client.cache.prices
        i == CacheIndex(before, price_id)
        after == CacheTouch(before, price_id)
        result == IF i = 0 THEN <<>> ELSE <<before[i].data>>
    IN  /\ cache_call.calls < MaxCacheCalls
        /\ pyth_client' = [pyth_client EXCEPT !.cache.prices = after]
        /\ cache_call' = CacheLogged("get_price", price_id, result, before, after,
                                     i # 0)
        /\ UNCHANGED <<now, plugin_state, client_lock, th, decisions,
                       accepted_fees, state_replaced, fee_query, fee_estimate,
                       fee_log, overflow_checks, risk_call, score_log, snapshot,
                       poisoned, state_lock>>

\* OracleCache::update_price: self.prices.put(price_id, price_data);
\* last_update = now
UpdatePrice(price_id, price_data) ==
    LET before == pyth_client.cache.prices
        after == CachePut(before, price_id, price_data)
    IN  /\ cache_call.calls < MaxCacheCalls
        /\ pyth_client' = [pyth_client EXCEPT !.cache.prices = after,
                                              !.cache.last_update = now]
        /\ cache_call' =
              [CacheLogged("update_price", price_id, <<>>, before, after, TRUE)
                  EXCEPT !.given = [@ EXCEPT ![price_id] = <<price_data>>]]
        /\ UNCHANGED <<now, plugin_state, client_lock, th, decisions,
                       accepted_fees, state_replaced, fee_query, fee_estimate,
                       fee_log, overflow_checks, risk_call, score_log, snapshot,
                       poisoned, state_lock>>

\* A cache one entry short of its capacity, or full.
InitCache ==
    /\ now = StartTime
    /\ client_lock = 0
    /\ th = [t \in Evaluations |-> IdleEvaluation]
    /\ decisions = 0
    /\ accepted_fees = 0
    /\ state_replaced = FALSE
    /\ overflow_checks = FALSE
    /\ risk_call = <<>>
    /\ score_log = <<>>
    /\ snapshot = <<>>
    /\ poisoned = FALSE
    /\ state_lock = 0
    /\ plugin_state = DefaultPluginState
    /\ fee_query = NullBundle
    /\ fee_estimate = -1
    /\ fee_log = <<>>
    /\ \E n \in {ORACLE_CACHE_CAPACITY - 1, ORACLE_CACHE_CAPACITY} :
          /\ pyth_client = [NewPythClient EXCEPT
                               !.cache.prices = PreloadedPrices(n),
                               !.cache.last_update = StartTime]
          /\ cache_call = CacheHistory(n)

NextCache ==
    \/ \E price_id \in ProbedFeeds : GetPrice(price_id)
    \/ \E price_id \in ProbedFeeds : UpdatePrice(price_id, FetchedPrice(StartTime, 0))

SpecCache == InitCache /\ [][NextCache]_vars

\* ------------------------------------------------------------------------
\* State reads.

\* Evaluations that have returned a reject code to the host.
Rejected == {t \in Evaluations : th[t].pc = "done" /\ th[t].result # SUCCESS}

\* Evaluations whose bundle has been counted by a pipeline while the
\* update_processing_metrics call of their entry point is still to come.
CountedNotMeasured ==
    {t \in Evaluations : th[t].bp_delta > 0 /\ th[t].pc \notin {"idle", "done"}}

\* lib.rs get_plugin_state with a buffer that is large enough: a clone of
\* the state taken under the lock, or ERROR_INVALID_STATE when the lock is
\* poisoned.  rejected and pending are history: the evaluations that had
\* returned a reject code, and those counted but not yet measured, when
\* the clone was taken.
GetPluginState ==
    /\ snapshot' = IF poisoned
                   THEN <<[ok |-> FALSE, code |-> ERROR_INVALID_STATE,
                           rejected |-> Rejected, pending |-> CountedNotMeasured]>>
                   ELSE <<[ok |-> TRUE, state |-> plugin_state,
                           rejected |-> Rejected, pending |-> CountedNotMeasured]>>
    /\ UNCHANGED <<now, plugin_state, pyth_client, client_lock, th, decisions,
                   accepted_fees, state_replaced, fee_query, fee_estimate,
                   fee_log, overflow_checks, risk_call, score_log, cache_call,
                   poisoned, state_lock>>

\* Two host threads evaluating bundles without injection points through
\* process_bundle_forwarding (one offered enough, one too little), while
\* the configuration is replaced and the state is read and restored.
StateBundles ==
    {Bundle(<<TestTransaction>>, 15000), Bundle(<<TestTransaction>>, 100)}

NextState ==
    \/ \E t \in Threads, bundle \in StateBundles :
          Started < MaxCalls /\ Call(t, "process_bundle_forwarding", FALSE, bundle)
    \/ \E t \in Threads :
          Started < MaxCalls /\ Call(t, "process_bundle_forwarding", TRUE, NullBundle)
    \/ \E t \in Threads : ProcessValidate(t)
    \/ \E t \in Threads : ProcessSize(t)
    \/ \E t \in Threads : ProcessFee(t)
    \/ \E t \in Threads : ProcessCommit(t)
    \/ \E t \in Threads, sample \in Samples : UpdateMetrics(t, sample)
    \/ \E t \in Threads : Return(t)
    \/ \E new_state \in RestoredStates : SetPluginState(new_state)
    \/ \E config \in Configs : PluginInit(config)
    \/ GetPluginState

SpecState == Init /\ [][NextState]_vars

\* Two host threads evaluating bundles with injection points through
\* process_bundle_v2, with a client the host has initialised or not, while
\* prices are fetched and the clock advances.
FetchBundles ==
    {Bundle(<<OneFeed>>, 15000), Bundle(<<OneFeed>>, 12499),
     Bundle(<<TwoFeeds>>, 25000)}

NextFetch ==
    \/ \E t \in Threads, bundle \in FetchBundles :
          Started < MaxCalls /\ Call(t, "process_bundle_v2", FALSE, bundle)
    \/ \E t \in Threads : OracleValidate(t)
    \/ \E t \in Threads : CachedOracleStep(t)
    \/ \E t \in Threads, updates \in FetchUpdates(now) : FetchComplete(t, updates)
    \/ \E t \in Threads, sample \in Samples : UpdateMetrics(t, sample)
    \/ \E t \in Threads : Return(t)
    \/ \E config \in OracleConfigs : InitializePythClient(config)
    \/ Tick

SpecFetch == Init /\ [][NextFetch]_vars

\* Checkpoints whose fee counter is at u64::MAX.
SaturatedStates ==
    {[DefaultPluginState EXCEPT !.config = config, !.total_fees_collected = -1] :
        config \in Configs}

\* Bundles around the default and the small configuration's fee and size
\* limits, and one the validator rejects.
PoisonBundles ==
    {Bundle(<<TestTransaction>>, 4999),
     Bundle(<<TestTransaction>>, 5000),
     Bundle(Repeat(TestTransaction, 101), 600000),
     Bundle(<<>>, 15000)}

\* process_bundle_forwarding calls in either build, after the host has
\* restored a checkpoint or not: in a build with overflow checks the
\* counter update of an accepted bundle can panic and poison PLUGIN_STATE
\* for the calls that follow.
NextPoison ==
    \/ \E t \in Threads, bundle \in PoisonBundles :
          Started < MaxCalls /\ Call(t, "process_bundle_forwarding", FALSE, bundle)
    \/ \E t \in Threads : ProcessValidate(t)
    \/ \E t \in Threads : ProcessSize(t)
    \/ \E t \in Threads : ProcessFee(t)
    \/ \E t \in Threads : ProcessCommit(t)
    \/ \E t \in Threads, sample \in Samples : UpdateMetrics(t, sample)
    \/ \E new_state \in SaturatedStates : SetPluginState(new_state)
    \/ GetPluginState

SpecPoison == InitBuild /\ [][NextPoison]_vars

\* ------------------------------------------------------------------------
\* The critical sections of PLUGIN_STATE, step by step.

\* The positions of the tier-1 pipeline that open with PLUGIN_STATE.lock().
LockedSections == {"pb_size", "pb_fee", "pb_commit", "metrics"}

\* PLUGIN_STATE.lock() of evaluation t: it waits until the lock is free.
LockState(t) ==
    /\ th[t].pc \in LockedSections
    /\ th[t].locked_at = "none"
    /\ state_lock = 0
    /\ state_lock' = t
    /\ th' = [th EXCEPT ![t].locked_at = th[t].pc]
    /\ UNCHANGED <<now, plugin_state, pyth_client, client_lock, decisions,
                   accepted_fees, state_replaced, fee_query, fee_estimate,
                   fee_log, overflow_checks, risk_call, score_log, cache_call,
                   snapshot, poisoned>>

\* Evaluation t holds the lock and the body of its section is to run.
InSection(t) == state_lock = t /\ th[t].locked_at = th[t].pc

\* The guard of the size check kept alive over the fee calculation, which
\* then locks PLUGIN_STATE from within the held section.
UnlockStateLate(t) ==
    /\ state_lock = t
    /\ th[t].locked_at # th[t].pc
    /\ th[t].pc # "pb_fee"
    /\ state_lock' = 0
    /\ th' = [th EXCEPT ![t].locked_at = "none"]
    /\ UNCHANGED <<now, plugin_state, pyth_client, client_lock, decisions,
                   accepted_fees, state_replaced, fee_query, fee_estimate,
                   fee_log, overflow_checks, risk_call, score_log, cache_call,
                   snapshot, poisoned>>

\* The MutexGuard is dropped at the end of the section's scope.
UnlockState(t) ==
    /\ state_lock = t
    /\ th[t].locked_at # th[t].pc
    /\ state_lock' = 0
    /\ th' = [th EXCEPT ![t].locked_at = "none"]
    /\ UNCHANGED <<now, plugin_state, pyth_client, client_lock, decisions,
                   accepted_fees, state_replaced, fee_query, fee_estimate,
                   fee_log, overflow_checks, risk_call, score_log, cache_call,
                   snapshot, poisoned>>

\* One step of evaluation t in process_bundle_forwarding.
LockedStep(t) ==
    \/ ProcessValidate(t)
    \/ LockState(t)
    \/ InSection(t) /\ ProcessSize(t)
    \/ InSection(t) /\ ProcessFee(t)
    \/ InSection(t) /\ ProcessCommit(t)
    \/ \E sample \in Samples : InSection(t) /\ UpdateMetrics(t, sample)
    \/ UnlockState(t)

\* Two host threads, one call of process_bundle_forwarding each, while
\* other host threads call estimate_forwarding_fee, get_plugin_state and set_plugin_state,
\* each of which takes the lock for one section of its own.
NextLock ==
    \/ \E t \in Threads, bundle \in StateBundles :
          Started < MaxCalls /\ Call(t, "process_bundle_forwarding", FALSE, bundle)
    \/ \E t \in Threads : LockedStep(t)
    \/ state_lock = 0 /\ EstimateForwardingFee(FALSE, OtherBundle)
    \/ state_lock = 0 /\ GetPluginState
    \/ \E new_state \in RestoredStates : state_lock = 0 /\ SetPluginState(new_state)

\* Every host thread inside the pipeline keeps running, and a thread
\* waiting in lock() gets the lock once it stays free.
FairLock == \A t \in Threads : WF_vars(LockedStep(t))

SpecLock == Init /\ [][NextLock]_vars /\ FairLock

\* One evaluation of any bundle through the exported entry points alone:
\* the host calls a process_* entry point and plugin_init while the clock
\* advances; nothing it can call runs initialize_pyth_client.
NextExported ==
    \/ \E entry \in Entries, bundle \in WideBundles : Call(1, entry, FALSE, bundle)
    \/ \E entry \in Entries : Call(1, entry, TRUE, NullBundle)
    \/ BaseStep(1)
    \/ FetchOraclePrices(1)
    \/ \E config \in Configs : PluginInit(config)
    \/ Tick

SpecExported == Init /\ [][NextExported]_vars

\* ------------------------------------------------------------------------
\* The age of a price at its lookup and at its scoring: one evaluation of
\* a bundle with one injection point, prices of every age band being
\* fetched under age limits below and above the 60-second band.

\* An OracleConfig with the largest age limit below the 60-second band of
\* calculate_price_confidence_score.
StrictOracleConfig ==
    [update_interval_ms |-> 1000, max_price_age_seconds |-> 59]

AgeConfigs == {DefaultOracleConfig, StrictOracleConfig, LaxOracleConfig}

\* A price published age seconds before t with a confidence interval of
\* 2% of the price (the worst interval component).
AgedPrice(t, age) ==
    [publish_time |-> t - age, price |-> 100000000, conf |-> 2000000, expo |-> -6]

AgeUpdates(t) ==
    {<<[data |-> AgedPrice(t, age), id |-> 12]>> : age \in {9, 30, 31, 59, 60}}
    \cup {<<[data |-> FetchedPrice(t, 59), id |-> 12]>>}

AgeBundles == {Bundle(<<OneFeed>>, 15000), Bundle(<<OneFeed>>, 12499)}

NextAge ==
    \/ \E bundle \in AgeBundles : Call(1, "process_bundle_v2", FALSE, bundle)
    \/ OracleValidate(1)
    \/ CachedOracleStep(1)
    \/ \E updates \in AgeUpdates(now) : FetchComplete(1, updates)
    \/ \E sample \in Samples : UpdateMetrics(1, sample)
    \/ \E config \in AgeConfigs : InitializePythClient(config)
    \/ Tick

SpecAge == Init /\ [][NextAge]_vars

\* ------------------------------------------------------------------------
\* The two lookups of the oracle pipeline: two concurrent evaluations of
\* bundles with injection points, whose fetches are due twice a second,
\* while the clock advances and a fetch may commit more feeds than the
\* cache holds.

\* An OracleConfig a host may pass to initialize_pyth_client, with a
\* refresh due every half second.
EagerOracleConfig ==
    [update_interval_ms |-> 500, max_price_age_seconds |-> 30]

\* A fetch round over ORACLE_CACHE_CAPACITY price accounts other than the
\* feeds of the test transactions.
BulkUpdate(t) ==
    [i \in 1..ORACLE_CACHE_CAPACITY |->
        [data |-> FetchedPrice(t, 0), id |-> ORACLE_CACHE_CAPACITY + i]]

TwiceUpdates(t) ==
    {BulkUpdate(t),
     <<[data |-> FetchedPrice(t, 30), id |-> 12],
       [data |-> FetchedPrice(t, 0), id |-> 13]>>}

TwiceBundles == {Bundle(<<OneFeed>>, 15000), Bundle(<<TwoFeeds>>, 25000)}

NextTwice ==
    \/ \E t \in Threads, bundle \in TwiceBundles :
          Started < MaxCalls /\ Call(t, "process_bundle_v2", FALSE, bundle)
    \/ \E t \in Threads : OracleValidate(t)
    \/ \E t \in Threads : CachedOracleStep(t)
    \/ \E t \in Threads, updates \in TwiceUpdates(now) : FetchComplete(t, updates)
    \/ \E t \in Threads, sample \in Samples : UpdateMetrics(t, sample)
    \/ InitializePythClient(EagerOracleConfig)
    \/ Tick

SpecTwice == Init /\ [][NextTwice]_vars

\* ------------------------------------------------------------------------
\* Properties.

Done(t) == th[t].pc = "done"
Quiescent == \A t \in Evaluations : th[t].pc \in {"idle", "done"}
Offered(t) == th[t].bundle.metadata.plugin_fees

\* The bundle passes the validator and the max_bundle_size limit.
Eligible(t) ==
    /\ validate_bundle(th[t].bundle, now) = SUCCESS
    /\ th[t].bundle.transaction_count <= plugin_state.config.max_bundle_size

\* Required fee of tier 1 and of tier 2 under the current configuration.
Tier1Fee(t) ==
    calculate_bundle_fee(th[t].bundle, plugin_state.config.min_fee_lamports,
                         plugin_state.config.fee_percentage)
Tier2Fee(t) == Tier1Fee(t) + calculate_oracle_processing_fee(Points(t))
TierFee(t) == IF th[t].entry = "process_bundle_forwarding" THEN Tier1Fee(t)
              ELSE Tier2Fee(t)

\* No refresh is due and the cache holds, for every injection point, a
\* price that is not stale and scores at least 30.
PricesUsable(t) ==
    /\ ~should_refresh(pyth_client, now)
    /\ \A i \in 1..Len(Points(t)) :
          LET r == get_oracle_price(pyth_client, Points(t)[i].required_price_id, now)
          IN  /\ r.ok
              /\ confidence_check(r.data, now) = SUCCESS

FeeBoundary(t) ==
    /\ Offered(t) = TierFee(t) => th[t].result = SUCCESS
    /\ Offered(t) < TierFee(t) => th[t].result = ERROR_INSUFFICIENT_FEE

C2_EmptyBundleInvalid ==
    \A t \in Evaluations :
        (Done(t) /\ ~th[t].bundle_is_null /\ th[t].bundle.transaction_count = 0)
            => th[t].result = ERROR_INVALID_BUNDLE

\* process_bundle_v3 decided an empty bundle with a null transactions
\* pointer and a fee of 15000.
C2_Witness ==
    \E t \in Evaluations :
        /\ Done(t) /\ ~th[t].bundle_is_null
        /\ th[t].entry = "process_bundle_v3"
        /\ th[t].bundle.transaction_count = 0
        /\ th[t].bundle.transactions_is_null
        /\ Offered(t) = 15000
        /\ th[t].result = ERROR_INVALID_BUNDLE

\* The bundle has a transaction whose compute_limit is 0 or above 1,400,000.
ComputeOutOfRange(bundle) ==
    /\ ~bundle.transactions_is_null
    /\ \E i \in 1..bundle.transaction_count :
          \/ bundle.transactions[i].compute_limit = 0
          \/ bundle.transactions[i].compute_limit > 1400000

\* The bundle with every compute_limit replaced by c.
WithComputeLimit(bundle, c) ==
    [bundle EXCEPT !.transactions =
        [i \in 1..Len(@) |-> [@[i] EXCEPT !.compute_limit = c]]]

\* C3: a bundle with a transaction whose compute_limit is 0 or above
\* 1,400,000 is decided ERROR_INVALID_BUNDLE whatever fee it offers, and
\* the validator passes a bundle whose compute limits are 1,400,000 when it
\* passes the same bundle with ordinary compute limits.
C3_ComputeLimitRange ==
    \A t \in Evaluations :
        /\ (Done(t) /\ ~th[t].bundle_is_null /\ ComputeOutOfRange(th[t].bundle))
              => th[t].result = ERROR_INVALID_BUNDLE
        /\ (/\ th[t].pc \in {"pb_validate", "ob_validate"}
            /\ validate_bundle(WithComputeLimit(th[t].bundle, 200000), now) = SUCCESS)
              => validate_bundle(WithComputeLimit(th[t].bundle, 1400000), now) = SUCCESS

\* A bundle offering 25000 whose only transaction has compute_limit
\* 1,400,001 was decided ERROR_INVALID_BUNDLE.
C3_Witness ==
    \E t \in Evaluations :
        /\ Done(t)
        /\ th[t].bundle = Bundle(<<WithCompute(1400001)>>, 25000)
        /\ th[t].result = ERROR_INVALID_BUNDLE

\* The three terms of the tier-1 fee of the estimated bundle.
QueryCount == fee_query.transaction_count
QueryTransactions == IF fee_query.transactions_is_null THEN <<>> ELSE fee_query.transactions
BaseTerm == plugin_state.config.min_fee_lamports * QueryCount
PercentageTerm ==
    MulF32Floor(SumSeq([i \in 1..Len(QueryTransactions) |->
                           QueryTransactions[i].priority_fee]),
                plugin_state.config.fee_percentage)
ComputeTerm ==
    SumSeq([i \in 1..Len(QueryTransactions) |->
               QueryTransactions[i].compute_limit]) \div 1000

\* C4: the fee calculate_bundle_fee returns is the largest of
\* min_fee_lamports * transaction_count, floor(sum of priority_fee *
\* fee_percentage) and floor(sum of compute_limit / 1000), and 5000 for one
\* transaction with priority_fee 5000 and compute_limit 200000 under the
\* default configuration.
C4_FeeIsMaximum ==
    fee_estimate # -1 =>
        /\ fee_estimate >= BaseTerm
        /\ fee_estimate >= PercentageTerm
        /\ fee_estimate >= ComputeTerm
        /\ fee_estimate \in {BaseTerm, PercentageTerm, ComputeTerm}
        /\ (/\ fee_query.transactions = <<TestTransaction>>
            /\ ~fee_query.transactions_is_null
            /\ plugin_state.config = DefaultConfig) => fee_estimate = 5000

\* The estimate of a bundle whose percentage term exceeds both other terms.
C4_Witness ==
    /\ fee_estimate # -1
    /\ fee_estimate = PercentageTerm
    /\ PercentageTerm > BaseTerm
    /\ BaseTerm > ComputeTerm
    /\ ComputeTerm > 0

\* Required fee of tier 3: the lower-tier fee plus 15,000 + 5,000 per
\* arbitrage opportunity + 1,000 per transaction above 10.
Tier3Fee(t) ==
    Tier2Fee(t)
        + calculate_institutional_fee(th[t].bundle,
                                      detect_arbitrage_opportunities(th[t].bundle))

\* C5: process_bundle_v3 accepts a bundle only if plugin_fees is at least
\* the tier-3 required fee.
C5_InstitutionalFeeEnforced ==
    (Done(3) /\ th[3].result = SUCCESS) => Offered(3) >= Tier3Fee(3)

\* C6: with the default state at start and no set_plugin_state call,
\* bundles_processed equals the number of bundle evaluations that have
\* returned a decision.
C6_EveryDecisionCounted ==
    (~state_replaced /\ Quiescent) => plugin_state.bundles_processed = decisions

\* C7: with the default state at start and no set_plugin_state call,
\* total_fees_collected equals the sum of plugin_fees over the evaluations
\* that returned SUCCESS.
C7_FeesCollectedOnce ==
    (~state_replaced /\ Quiescent) => plugin_state.total_fees_collected = accepted_fees

\* C8: when the feed of an injection point is not in the cache, or is older
\* than max_price_age_seconds, at its Step-3 lookup, the evaluation is
\* decided ERROR_ORACLE_CACHE_MISS or ERROR_ORACLE_STALE_PRICE respectively
\* and makes no lookup of the injection step.
C8_UnusablePriceRejects ==
    \A t \in Evaluations :
        th[t].last_lookup # <<>> =>
            LET fact == th[t].last_lookup[1]
            IN  /\ ~fact.found =>
                      /\ th[t].result = ERROR_ORACLE_CACHE_MISS
                      /\ th[t].injected = 0
                /\ (fact.found /\ fact.age > fact.max_age) =>
                      /\ th[t].result = ERROR_ORACLE_STALE_PRICE
                      /\ th[t].injected = 0

\* A bundle with two injection points was decided ERROR_ORACLE_STALE_PRICE
\* at the lookup of a price 31 seconds old, with no injection lookup made.
C8_Witness ==
    \E t \in Evaluations :
        /\ Done(t)
        /\ Len(Points(t)) = 2
        /\ th[t].last_lookup # <<>>
        /\ th[t].last_lookup[1].found
        /\ th[t].last_lookup[1].age = 31
        /\ th[t].last_lookup[1].max_age = 30
        /\ th[t].result = ERROR_ORACLE_STALE_PRICE
        /\ th[t].injected = 0

C10_NoPointsFallThrough ==
    (th[2].pc # "idle" /\ Points(2) = <<>>) =>
        /\ ~th[2].client_consulted
        /\ th[2].last_lookup = <<>>
        /\ th[2].injected = 0
        /\ (Done(1) /\ Done(2)) =>
              /\ th[2].result = th[1].result
              /\ th[2].bp_delta = th[1].bp_delta
              /\ th[2].fee_delta = th[1].fee_delta
              /\ th[2].size_checked = th[1].size_checked

\* Both entry points rejected a two-transaction bundle without injection
\* points at the max_bundle_size limit of 1.
C10_Witness ==
    /\ Done(1) /\ Done(2)
    /\ Points(2) = <<>>
    /\ th[2].bundle.transaction_count = 2
    /\ plugin_state.config.max_bundle_size = 1
    /\ th[2].result = ERROR_INVALID_BUNDLE
    /\ th[1].result = ERROR_INVALID_BUNDLE

\* The last fee-estimate call and the one before it.
LastCall == fee_log[Len(fee_log)]
PreviousCall == fee_log[1]

\* 10,000 per injection point plus 2,000 per injection point above five.
OracleSurcharge(n) == 10000 * n + 2000 * (IF n > 5 THEN n - 5 ELSE 0)

\* The oracle admission check of evaluation t ran.
OracleFeeChecked(t) ==
    /\ th[t].entry # "process_bundle_forwarding"
    /\ Points(t) # <<>>
    /\ th[t].required_fee # -1

\* C11: the fee the oracle admission check requires of a bundle with n
\* injection points is its tier-1 fee plus 10,000 * n + 2,000 * max(0, n - 5),
\* hence never below the tier-1 fee, and get_oracle_fee_estimate returns the
\* same value for the same bundle (and the tier-1 estimate plus the same
\* surcharge).
C11_OracleFeeFormula ==
    /\ \A t \in Evaluations :
          OracleFeeChecked(t) =>
              /\ th[t].required_fee = Tier1Fee(t) + OracleSurcharge(Len(Points(t)))
              /\ th[t].required_fee >= Tier1Fee(t)
              /\ (/\ fee_log # <<>>
                  /\ LastCall.entry = "get_oracle_fee_estimate"
                  /\ LastCall.query = th[t].bundle)
                     => LastCall.estimate = th[t].required_fee
    /\ (/\ Len(fee_log) = 2
        /\ PreviousCall.entry = "estimate_forwarding_fee"
        /\ LastCall.entry = "get_oracle_fee_estimate"
        /\ LastCall.query = PreviousCall.query)
           => /\ LastCall.estimate = PreviousCall.estimate
                    + OracleSurcharge(Len(extract_price_injection_points(LastCall.query)))
              /\ LastCall.estimate >= PreviousCall.estimate

\* The admission check of process_bundle_v2 required 67,000 of a bundle
\* with six injection points, and the estimate that followed the tier-1
\* estimate of 5,000 is 67,000 too.
C11_Witness ==
    /\ OracleFeeChecked(2)
    /\ Len(Points(2)) = 6
    /\ th[2].required_fee = 67000
    /\ Len(fee_log) = 2
    /\ PreviousCall.entry = "estimate_forwarding_fee"
    /\ PreviousCall.estimate = 5000
    /\ LastCall.entry = "get_oracle_fee_estimate"
    /\ LastCall.query = th[2].bundle
    /\ LastCall.estimate = 67000

\* 15,000 + 5,000 per arbitrage opportunity + 1,000 per transaction above
\* ten.
InstitutionalSurcharge(bundle) ==
    15000 + 5000 * detect_arbitrage_opportunities(bundle)
          + 1000 * (IF bundle.transaction_count > 10
                    THEN bundle.transaction_count - 10 ELSE 0)

\* C12: estimate_institutional_fee returns the required fee of the lower
\* active tier plus 15,000 + 5,000 * (arbitrage opportunities) + 1,000 *
\* max(0, transaction_count - 10), and so is never below the tier-1 or the
\* tier-2 estimate of the same bundle.
C12_InstitutionalEstimateAdditive ==
    (/\ Len(fee_log) = 2
     /\ PreviousCall.entry = "get_oracle_fee_estimate"
     /\ LastCall.entry = "estimate_institutional_fee"
     /\ LastCall.query = PreviousCall.query
     /\ LastCall.query # NullBundle)
        => /\ LastCall.estimate
                 = PreviousCall.estimate + InstitutionalSurcharge(LastCall.query)
           /\ LastCall.estimate >= PreviousCall.estimate
           /\ LastCall.estimate
                 >= calculate_bundle_fee(LastCall.query,
                                         LastCall.config.min_fee_lamports,
                                         LastCall.config.fee_percentage)

\* Evaluation t went through every check of the lower tiers: the lower
\* tier counted the bundle.
LowerTiersPassed(t) ==
    /\ th[t].entry = "process_bundle_v3"
    /\ th[t].pc \in {"metrics", "done"}
    /\ th[t].bp_delta >= 1

\* The notional of the risk-limit step is within the ceiling.
RiskWithinCeiling(bundle) ==
    SumSeq([i \in 1..bundle.transaction_count |->
               bundle.transactions[i].priority_fee]) <= 1000000000

\* C13: with compliance enabled, a bundle of more than 50 transactions that
\* passed the lower tiers is rejected with ERROR_INSTITUTIONAL_COMPLIANCE
\* whatever its fee and notional, one with plugin_fees below 20,000 is
\* rejected by the compliance step, and one of exactly 50 transactions with
\* plugin_fees of exactly 20,000 passes the compliance step.
C13_ComplianceLimits ==
    \A t \in Evaluations :
        LowerTiersPassed(t) =>
            LET bundle == th[t].bundle
            IN  /\ bundle.transaction_count > 50
                       => th[t].result = ERROR_INSTITUTIONAL_COMPLIANCE
                /\ (bundle.transaction_count <= 50 /\ bundle.metadata.plugin_fees < 20000)
                       => th[t].result = ERROR_INSUFFICIENT_FEE
                /\ (/\ bundle.transaction_count = 50
                    /\ bundle.metadata.plugin_fees = 20000
                    /\ RiskWithinCeiling(bundle))
                       => th[t].result = SUCCESS

\* process_bundle_v3 accepted 50 transactions offered at 20,000.
C13_Witness ==
    /\ LowerTiersPassed(3)
    /\ th[3].bundle.transaction_count = 50
    /\ th[3].bundle.metadata.plugin_fees = 20000
    /\ th[3].result = SUCCESS

\* The notional of a bundle as a natural number: the sum of priority_fee *
\* 1000 over its transactions.
RECURSIVE Notional(_, _)
Notional(transactions, n) ==
    IF n = 0 THEN <<>>
    ELSE BigAdd(Notional(transactions, n - 1),
                BigMul(transactions[n].priority_fee, BigOf(1000)))

\* C14: the risk-limit step rejects with ERROR_INSTITUTIONAL_RISK_LIMIT
\* exactly when the notional, the sum of priority_fee * 1000, exceeds
\* 1,000,000,000,000, for every u64 priority_fee: a notional at the ceiling
\* passes and one above it is never admitted.
C14_RiskLimitExact ==
    risk_call # <<>> =>
        LET bundle == risk_call.bundle
            notional == Notional(bundle.transactions, bundle.transaction_count)
            ceiling == Decimal(<<1000, 0>>)
        IN  /\ BigLess(ceiling, notional)
                   => risk_call.result = ERROR_INSTITUTIONAL_RISK_LIMIT
            /\ BigLeq(notional, ceiling) => risk_call.result = SUCCESS

\* process_bundle_forwarding returned from a non-null bundle that announces
\* transactions but has a null transactions pointer.
NullTransactionsReturned(t) ==
    /\ Done(t)
    /\ th[t].entry = "process_bundle_forwarding"
    /\ ~th[t].bundle_is_null
    /\ th[t].bundle.transaction_count > 0
    /\ th[t].bundle.transactions_is_null

\* C15 as stated: a non-null bundle with transaction_count > 0 and a null
\* transactions pointer is rejected by process_bundle_forwarding with
\* ERROR_INVALID_BUNDLE.
C15_NullTransactionsInvalidBundle ==
    \A t \in Evaluations :
        NullTransactionsReturned(t) => th[t].result = ERROR_INVALID_BUNDLE

\* Two fee estimates of the same bundle under the same configuration
\* agree.
EstimatesAgree ==
    (/\ Len(fee_log) = 2
     /\ LastCall.entry = PreviousCall.entry
     /\ LastCall.query = PreviousCall.query
     /\ LastCall.config = PreviousCall.config)
        => LastCall.estimate = PreviousCall.estimate

\* Two returned evaluations of the same bundle through the same entry
\* point agree on the code.
EvaluationsAgree ==
    \A t \in Evaluations, u \in Evaluations :
        (/\ Done(t) /\ Done(u)
         /\ th[t].entry = th[u].entry
         /\ th[t].bundle = th[u].bundle)
            => th[t].result = th[u].result

Increased(a, b) ==
    \/ /\ BigLess(a.priority_fee, b.priority_fee)
       /\ b = [a EXCEPT !.priority_fee = b.priority_fee]
    \/ /\ BigLess(a.compute_limit, b.compute_limit)
       /\ b = [a EXCEPT !.compute_limit = b.compute_limit]

\* Bundle y is bundle x with one field of one transaction increased.
OneFieldIncreased(x, y) ==
    /\ x.transaction_count = y.transaction_count
    /\ \E i \in 1..x.transaction_count :
          /\ Increased(x.transactions[i], y.transactions[i])
          /\ y = [x EXCEPT !.transactions[i] = y.transactions[i]]

\* C17: under a fixed configuration, increasing the priority_fee or the
\* compute_limit of one transaction never decreases calculate_bundle_fee,
\* for all u64 priority fees and u32 compute limits.
C17_FeeMonotone ==
    (/\ Len(fee_log) = 2
     /\ LastCall.config = PreviousCall.config
     /\ OneFieldIncreased(PreviousCall.query, LastCall.query))
        => /\ ~PreviousCall.estimate.panicked
           /\ ~LastCall.estimate.panicked
           /\ BigLeq(PreviousCall.estimate.value, LastCall.estimate.value)

LastScore == score_log[Len(score_log)]
PreviousScore == score_log[1]

\* The exact age of the price of a call, current_time - publish_time.
Age(call) == SignedSub(call.current_time, call.price_data.publish_time)

\* The confidence-interval ratio conf / |price| of call a is at most that of
\* call b (both prices non-zero), by exact cross-multiplication.
RatioLeq(a, b) ==
    /\ a.price_data.price.mag # <<>>
    /\ b.price_data.price.mag # <<>>
    /\ BigLeq(BigMul(a.price_data.conf, b.price_data.price.mag),
              BigMul(b.price_data.conf, a.price_data.price.mag))

\* C18: calculate_price_confidence_score returns a value in 0..100, is
\* non-increasing in the age of the price when the ratio conf / |price| is
\* the same, and non-increasing in the ratio when the age is the same.
C18_ScoreMonotone ==
    Len(score_log) = 2 =>
        LET a == PreviousScore
            b == LastScore
        IN  /\ ~b.score.panicked
            /\ b.score.value \in 0..100
            /\ (/\ RatioLeq(a, b) /\ RatioLeq(b, a)
                /\ ~SignedLess(Age(b), Age(a)))
                   => a.score.value >= b.score.value
            /\ (Age(a) = Age(b) /\ RatioLeq(a, b))
                   => a.score.value >= b.score.value

\* The calls recorded so far.
ScoreCalls == {score_log[i] : i \in 1..Len(score_log)}

\* C19: a price of age 300 s (price 100,000,000, conf 50,000, ratio 0.05 %)
\* gets a confidence score below 50.
C19_StalePriceLow ==
    \A call \in ScoreCalls :
        (/\ call.price_data.price = I64Of(100000000)
         /\ call.price_data.conf = BigOf(50000)
         /\ Age(call) = I64Of(300))
            => /\ ~call.score.panicked
               /\ call.score.value < 50

\* The age component of the score for an exact age.
AgeScore(age) ==
    IF SignedLess(age, I64Of(10)) THEN 100
    ELSE IF SignedLess(age, I64Of(30)) THEN 80
    ELSE IF SignedLess(age, I64Of(60)) THEN 50
    ELSE 20

\* The price of the call is zero and its age is representable in i64.
ZeroPriceCall(call) ==
    /\ call.price_data.price.mag = <<>>
    /\ ~I64Wrap(Age(call)).overflow

C21_CacheContract ==
    LET prices == pyth_client.cache.prices
    IN  /\ Len(prices) <= ORACLE_CACHE_CAPACITY
        /\ Cardinality(CacheIds(prices)) = Len(prices)
        /\ cache_call.op = "update_price" =>
              /\ cache_call.evicted =
                    IF cache_call.was_full /\ ~cache_call.was_cached
                    THEN {cache_call.lru} ELSE {}
              /\ cache_call.mru # 0
              /\ cache_call.mru \notin cache_call.evicted
              /\ cache_call.id \in CacheIds(prices)
        /\ cache_call.op = "get_price" =>
              /\ cache_call.evicted = {}
              /\ cache_call.was_held =>
                    cache_call.result = cache_call.given[cache_call.id]
              /\ ~cache_call.was_held => cache_call.result = <<>>

\* A full cache whose oldest entry was read by get_price has just been
\* given a new feed: the second oldest entry went, the one read stayed.
C21_Witness ==
    /\ cache_call.op = "update_price"
    /\ cache_call.was_full
    /\ cache_call.id = ORACLE_CACHE_CAPACITY + 1
    /\ cache_call.evicted = {2}
    /\ cache_call.mru = 1
    /\ 1 \in CacheIds(pyth_client.cache.prices)

\* C22: whenever an evaluation has returned a reject code (the code of a
\* null bundle pointer included) and the state has not been restored by
\* set_plugin_state, the state holds a last-error marker, and so does
\* every state that get_plugin_state copies out from then on.
C22_RejectLeavesMarker ==
    ~state_replaced =>
        /\ Rejected # {} => plugin_state.last_error.is_some
        /\ (snapshot # <<>> /\ snapshot[1].rejected # {}) =>
              (snapshot[1].ok /\ snapshot[1].state.last_error.is_some)

C24_DecisionAtomic ==
    /\ CountedNotMeasured = {}
    /\ snapshot # <<>> => snapshot[1].pending = {}

\* C25: the configuration values an evaluation has read (max_bundle_size,
\* min_fee_lamports, fee_percentage, enable_metrics) are all values of one
\* and the same installed configuration.
C25_SingleConfigSnapshot ==
    \A t \in Evaluations :
        \E config \in Configs :
            \A read \in th[t].config_read : config[read[1]] = read[2]

\* What process_bundle returns for a bundle under the default
\* configuration.
DefaultDecision(bundle) ==
    LET r == validate_bundle(bundle, now)
    IN  IF r # SUCCESS THEN r
        ELSE IF bundle_size_check(bundle, DefaultConfig) # SUCCESS
        THEN ERROR_INVALID_BUNDLE
        ELSE fee_check(bundle,
                 calculate_bundle_fee(bundle, DefaultConfig.min_fee_lamports,
                                      DefaultConfig.fee_percentage))

\* C26: an evaluation that could not take the PLUGIN_STATE lock in any of
\* its critical sections, because the lock is poisoned, returns the code
\* that the default configuration gives for its bundle.
C26_PoisonedFallsBackToDefault ==
    \A t \in Evaluations :
        (poisoned /\ Done(t) /\ th[t].result # PANIC /\ th[t].config_read = {}) =>
            th[t].result = DefaultDecision(th[t].bundle)

\* C27: every evaluation that has started in the tier-1 pipeline
\* eventually returns a decision code, whatever the interleaving with the
\* other evaluation, fee estimates, state reads and state replacements:
\* no critical section of PLUGIN_STATE is entered from within another one
\* and none is left without releasing the lock.
C27_EveryEvaluationReturns ==
    \A t \in Threads :
        (th[t].pc \notin {"idle", "done"}) ~>
            (th[t].pc = "done" /\ th[t].result # NO_RESULT /\ state_lock # t)

\* One evaluation waits in lock() while the other is inside a section.
C27_Witness ==
    \E t \in Threads, u \in Threads :
        /\ t # u
        /\ InSection(t)
        /\ th[u].pc \in LockedSections
        /\ th[u].locked_at = "none"

\* The evaluation entered the oracle pipeline (process_bundle_v2 or
\* process_bundle_v3) with a bundle that has an injection point.
InOraclePipeline(t) ==
    /\ ~th[t].bundle_is_null
    /\ th[t].entry \in {"process_bundle_v2", "process_bundle_v3"}
    /\ Points(t) # <<>>

ScoredAge(t) == now - th[t].price[1].publish_time

LookupAge(t) == th[t].last_lookup[1].age

ScoreNow(t) == calculate_price_confidence_score(th[t].price[1], now)

PointLookup(t) ==
    LookupFact(pyth_client, Points(t)[th[t].idx].required_price_id, now)

Usable(fact) == fact.found /\ fact.age <= fact.max_age

LookupCode(fact) ==
    IF fact.found THEN ERROR_ORACLE_STALE_PRICE ELSE ERROR_ORACLE_CACHE_MISS

FeePassed(eval) ==
    /\ eval.required_fee >= 0
    /\ eval.bundle.metadata.plugin_fees >= eval.required_fee

\* C30: every injection point's price is looked up once before the fee
\* check (and scored) and once more in the injection step, each in a step
\* of its own; the pipeline goes on to count the bundle and return SUCCESS
\* only if each lookup found the feed present and not stale, and a price
\* that passed the first lookup but is stale or missing at the second
\* makes the bundle rejected with ERROR_ORACLE_STALE_PRICE or
\* ERROR_ORACLE_CACHE_MISS after its fee check passed, the counters
\* untouched.
C30_BothLookupsDecide ==
    [][\A t \in Threads :
          /\ th[t].pc = "resolve" /\ th'[t] # th[t] =>
                IF Usable(PointLookup(t))
                THEN th'[t].pc = "score"
                ELSE /\ th'[t].pc = "metrics"
                     /\ th'[t].result = LookupCode(PointLookup(t))
          /\ th[t].pc = "inject" /\ th'[t] # th[t] =>
                /\ Usable(th[t].last_lookup[1])
                /\ FeePassed(th[t])
                /\ th'[t].injected = th[t].injected + 1
                /\ IF Usable(PointLookup(t))
                   THEN IF th[t].idx < Len(Points(t))
                        THEN th'[t].pc = "inject" /\ th'[t].idx = th[t].idx + 1
                        ELSE th'[t].pc = "oracle_commit"
                   ELSE /\ th'[t].pc = "metrics"
                        /\ th'[t].result = LookupCode(PointLookup(t))
                        /\ plugin_state' = plugin_state
          /\ th'[t].pc = "oracle_commit" /\ th[t].pc # "oracle_commit" =>
                /\ th[t].pc = "inject"
                /\ th'[t].injected = Len(Points(t))
          /\ th'[t].pc = "inject" /\ th[t].pc # "inject" =>
                /\ th[t].pc = "oracle_fee"
                /\ th'[t].injected = 0
                /\ th'[t].idx = 1
          /\ th'[t].result \in {ERROR_ORACLE_STALE_PRICE, ERROR_ORACLE_CACHE_MISS} =>
                th'[t].bp_delta = 0 /\ th'[t].fee_delta = 0
      ]_vars

\* An evaluation whose price passed the first lookup and the fee check
\* and was evicted by the other evaluation's fetch before the second.
C30_Witness ==
    \E t \in Threads :
        /\ th[t].result = ERROR_ORACLE_CACHE_MISS
        /\ th[t].injected > 0
        /\ Usable(th[t].last_lookup[1])
        /\ FeePassed(th[t])
        /\ th[t].bp_delta = 0
        /\ plugin_state.bundles_processed = 0

\* The same, the price having aged past the limit instead.
AgedBetweenLookups ==
    \E t \in Threads :
        /\ th[t].result = ERROR_ORACLE_STALE_PRICE
        /\ th[t].injected > 0
        /\ Usable(th[t].last_lookup[1])
        /\ FeePassed(th[t])

====
